---------------------------- MODULE Spec2Model ----------------------------
(***************************************************************************)
(* Request execution and retry of the yod client library.                  *)
(*                                                                         *)
(* One logical call of YodClient._request / AsyncYodClient._request:       *)
(* lazy construction of the connection object, the attempt loop of         *)
(* execute_with_retry_sync / execute_with_retry_async around a transport   *)
(* whose outcome is chosen by the environment, the wait between attempts,  *)
(* and the facade's handling of the executor's outcome (parsing,           *)
(* classification, raising).                                               *)
(*                                                                         *)
(* Units: durations are integers in milliseconds (0.5 s = 500), jitter is  *)
(* a percentage (0.1 = 10), backoff_multiplier is an integer factor.       *)
(* random.uniform(-r, r) is the choice of one of the sample offsets        *)
(* -r, 0, r.                                                               *)
(***************************************************************************)
EXTENDS Integers, Sequences, FiniteSets, TLC

VARIABLES
    config,         \* self.retry_config (RetryConfig)
    variant,        \* "sync" (YodClient) or "async" (AsyncYodClient)
    raw_response,   \* the raw_response argument of _request
    client,         \* self._client: 0 is None, n > 0 the n-th connection object
    pc,             \* position of the call: idle, attempt, sleep, executed, done
    attempt,        \* loop variable of the attempt loop
    last_response,  \* last_response of the executor
    calls,          \* number of request_func() calls made so far
    history,        \* kind and status of every transport outcome so far, in order
    outcome,        \* what the latest request_func() call returned or raised
    sleeps,         \* number of time.sleep / asyncio.sleep calls so far
    delay,          \* the duration passed to the latest sleep
    exec_result,    \* what the executor returned or raised
    result,         \* what _request returned or raised
    cl,             \* one application of _handle_error_response: input and output
    fn,             \* one application of a function of _retry.py: input and output
    eq,             \* the two executors run side by side on the same outcomes
    tasks,          \* the calls that run concurrently on one client
    life,           \* one client used by one caller: requests and close() in turn
    req             \* the request one call builds and sends on each attempt

vars == << config, variant, raw_response, client, pc, attempt, last_response,
           calls, history, outcome, sleeps, delay, exec_result, result, cl,
           fn, eq, tasks, life, req >>

\* The variables of the other state machines, which one call leaves alone
aux == << fn, eq, tasks, life, req >>

\* The variables of one call
call == << config, variant, raw_response, client, pc, attempt, last_response,
           calls, history, outcome, sleeps, delay, exec_result, result >>

---------------------------------------------------------------------------
(* Bounds of the model *)

MaxRetries == 2

---------------------------------------------------------------------------
(* Optional values: None, or a number *)

None == [some |-> FALSE, val |-> 0]

Some(v) == [some |-> TRUE, val |-> v]

Min(a, b) == IF a <= b THEN a ELSE b

Max(a, b) == IF a >= b THEN a ELSE b

RECURSIVE Pow(_, _)
Pow(b, e) == IF e <= 0 THEN 1 ELSE b * Pow(b, e - 1)

---------------------------------------------------------------------------
(* RetryConfig and the retry policy, _retry.py *)

RetryConfig(max_retries) ==
    [ max_retries        |-> max_retries,
      initial_delay      |-> 500,
      max_delay          |-> 30000,
      backoff_multiplier |-> 2,
      retry_on_status    |-> {429, 500, 502, 503, 504},
      jitter             |-> 10 ]

\* random.uniform(-r, r): the sample offsets of the model
Uniform(r) == {-r, 0, r}

\* Mutant: the exponent is the one-based attempt number
calculate_delay_one_based(a, cfg, retry_after) ==
    IF retry_after.some
    THEN { Min(retry_after.val, cfg.max_delay) }
    ELSE LET d0 == cfg.initial_delay * Pow(cfg.backoff_multiplier, a + 1)
             d1 == Min(d0, cfg.max_delay)
             jitter_range == (d1 * cfg.jitter) \div 100
         IN  { Max(0, d1 + j) : j \in Uniform(jitter_range) }

\* Mutant: the jitter is applied to a Retry-After value as well
calculate_delay_retry_after_jittered(a, cfg, retry_after) ==
    LET d0 == cfg.initial_delay * Pow(cfg.backoff_multiplier, a)
        d1 == IF retry_after.some THEN Min(retry_after.val, cfg.max_delay)
              ELSE Min(d0, cfg.max_delay)
        jitter_range == (d1 * cfg.jitter) \div 100
    IN  { Max(0, d1 + j) : j \in Uniform(jitter_range) }

\* Mutant: the jitter range is a share of max_delay, not of the delay
calculate_delay_jitter_of_max_delay(a, cfg, retry_after) ==
    IF retry_after.some
    THEN { Min(retry_after.val, cfg.max_delay) }
    ELSE LET d0 == cfg.initial_delay * Pow(cfg.backoff_multiplier, a)
             d1 == Min(d0, cfg.max_delay)
             jitter_range == (cfg.max_delay * cfg.jitter) \div 100
         IN  { Max(0, d1 + j) : j \in Uniform(jitter_range) }

\* The set of values calculate_delay can return
calculate_delay(a, cfg, retry_after) ==
    IF retry_after.some
    THEN { Min(retry_after.val, cfg.max_delay) }
    ELSE LET d0 == cfg.initial_delay * Pow(cfg.backoff_multiplier, a)
             d1 == Min(d0, cfg.max_delay)
             jitter_range == (d1 * cfg.jitter) \div 100
         IN  { Max(0, d1 + j) : j \in Uniform(jitter_range) }

\* Mutant: the test is on the status class, not on the configured set
should_retry_by_status_class(status_code, cfg) ==
    status_code = 429 \/ status_code >= 500

should_retry(status_code, cfg) == status_code \in cfg.retry_on_status


---------------------------------------------------------------------------
(* Transport outcomes: what one request_func() call returns or raises *)

\* A header that the response does not carry
Absent == "<absent>"

Statuses == {200, 399, 400, 401, 404, 429, 501, 503}

RetryAfterHeaders == {Absent, "60", "-1", "Wed, 21 Oct 2015 07:28:00 GMT"}

RequestIds == {"req-123"}

Contents == {"", "{\"detail\": \"Invalid token\"}", "[1]"}

Responses ==
    [ k : {"response"}, status_code : Statuses, retry_after : RetryAfterHeaders,
      request_id : RequestIds, content : Contents ]

\* A raised exception carries no response
Raised(exc) ==
    [ k |-> exc, status_code |-> 0, retry_after |-> Absent,
      request_id |-> Absent, content |-> "" ]

\* httpx.ConnectError, httpx.TimeoutException, and any other exception
Failures == { Raised(e) : e \in {"ConnectError", "TimeoutException", "OtherError"} }

Outcomes == Responses \cup Failures

NoResponse == Raised("none")

\* What the history keeps of an outcome
Tag(o) == [k |-> o.k, status_code |-> o.status_code]

\* float(s) in milliseconds; None when float() raises ValueError
ParseFloat(s) ==
    CASE s = "60"   -> Some(60000)
      [] s = "30"   -> Some(30000)
      [] s = "2"    -> Some(2000)
      [] s = "1.5"  -> Some(1500)
      [] s = "0"    -> Some(0)
      [] s = "-1"   -> Some(-1000)
      [] OTHER      -> None

get_retry_after(response) ==
    IF response.retry_after = Absent
    THEN None
    ELSE ParseFloat(response.retry_after)

---------------------------------------------------------------------------
(* Parsed bodies.  A body is None, a JSON object or a JSON array.  Of an     *)
(* object the model keeps the values of its keys "detail" and "message"      *)
(* (Absent: no such key, PyNone: JSON null) and the number n of its other    *)
(* keys; of an array, the number n of its elements.                          *)

PyNone == "<None>"

NoBody == [t |-> "none", detail |-> Absent, message |-> Absent, n |-> 0]

Dict(d, m, n) == [t |-> "dict", detail |-> d, message |-> m, n |-> n]

List(n) == [t |-> "list", detail |-> Absent, message |-> Absent, n |-> n]

\* json.loads raises: the text is not JSON
JSONDecodeError == [t |-> "JSONDecodeError", detail |-> Absent, message |-> Absent, n |-> 0]

\* json.loads(content): the parsed value, or the JSONDecodeError it raises
JsonLoads(content) ==
    CASE content = "{\"detail\": \"Invalid token\"}" -> Dict("Invalid token", Absent, 0)
      [] content = "{\"message\": \"Bad request\"}"   -> Dict(Absent, "Bad request", 0)
      [] content = "{\"detail\": \"Not found\", \"message\": \"Gone\"}"
                                                       -> Dict("Not found", "Gone", 0)
      [] content = "{\"detail\": null}"               -> Dict(PyNone, Absent, 0)
      [] content = "{\"detail\": null, \"message\": \"Bad request\"}"
                                                       -> Dict(PyNone, "Bad request", 0)
      [] content = "{\"error\": \"Server error\"}"     -> Dict(Absent, Absent, 1)
      [] content = "{}"                                -> Dict(Absent, Absent, 0)
      [] content = "[]"                                -> List(0)
      [] content = "[1]"                               -> List(1)
      [] OTHER                                         -> JSONDecodeError

\* Mutant: a body that does not parse is taken to be the empty object
_parse_response_body_failure_as_empty_object(content) ==
    IF content = "" THEN NoBody
    ELSE IF JsonLoads(content) = JSONDecodeError THEN Dict(Absent, Absent, 0)
    ELSE JsonLoads(content)

_parse_response_body(content) ==
    IF content = "" THEN NoBody
    ELSE IF JsonLoads(content) = JSONDecodeError THEN NoBody
    ELSE JsonLoads(content)

\* bool(body)
Truthy(body) ==
    CASE body.t = "none" -> FALSE
      [] body.t = "dict" -> body.detail # Absent \/ body.message # Absent \/ body.n > 0
      [] body.t = "list" -> body.n > 0

\* body.get(key, default) of a JSON object
DictGet(body, key, default) ==
    CASE key = "detail"  -> IF body.detail # Absent THEN body.detail ELSE default
      [] key = "message" -> IF body.message # Absent THEN body.message ELSE default

Repr(v) == IF v = PyNone THEN "None" ELSE "'" \o v \o "'"

\* str(body) of a JSON object
StrOf(body) ==
    LET d == IF body.detail # Absent THEN <<"'detail': " \o Repr(body.detail)>> ELSE << >>
        m == IF body.message # Absent THEN <<"'message': " \o Repr(body.message)>> ELSE << >>
        e == IF body.n > 0 THEN <<"'error': 'Server error'">> ELSE << >>
        items == d \o m \o e
        Join[i \in 0..Len(items)] ==
            IF i = 0 THEN ""
            ELSE IF i = 1 THEN items[1]
            ELSE Join[i - 1] \o ", " \o items[i]
    IN  "{" \o Join[Len(items)] \o "}"

---------------------------------------------------------------------------
(* The library's exceptions, yod/exceptions.py.  An error is a record: its  *)
(* class (kind), whether it is a YodAPIError (api) and, when it is, its     *)
(* status_code, message, response_body and request_id; retry_after is the   *)
(* attribute of RateLimitError.                                             *)

YodAPIError(message, status_code, response_body, request_id) ==
    [ kind |-> "YodAPIError", api |-> TRUE, status_code |-> status_code,
      message |-> message, retry_after |-> None,
      response_body |-> response_body, request_id |-> request_id ]

AuthenticationError(message, response_body, request_id) ==
    [ YodAPIError(message, 401, response_body, request_id)
        EXCEPT !.kind = "AuthenticationError" ]

AuthorizationError(message, response_body, request_id) ==
    [ YodAPIError(message, 403, response_body, request_id)
        EXCEPT !.kind = "AuthorizationError" ]

NotFoundError(message, response_body, request_id) ==
    [ YodAPIError(message, 404, response_body, request_id)
        EXCEPT !.kind = "NotFoundError" ]

ValidationError(message, response_body, request_id) ==
    [ YodAPIError(message, 422, response_body, request_id)
        EXCEPT !.kind = "ValidationError" ]

RateLimitError(message, retry_after, response_body, request_id) ==
    [ YodAPIError(message, 429, response_body, request_id)
        EXCEPT !.kind = "RateLimitError", !.retry_after = retry_after ]

ServerError(message, status_code, response_body, request_id) ==
    [ YodAPIError(message, status_code, response_body, request_id)
        EXCEPT !.kind = "ServerError" ]

\* An exception that is no YodAPIError: it has no status_code
OtherException(kind) ==
    [ kind |-> kind, api |-> FALSE, status_code |-> 0, message |-> "",
      retry_after |-> None, response_body |-> NoBody, request_id |-> Absent ]

NoError == OtherException("none")

\* Mutant: a ServerError carries the Retry-After of its response too
_handle_error_response_retry_after_for_5xx(status_code, body, request_id, headers) ==
    IF Truthy(body) /\ body.t # "dict"
    THEN \* body.get: 'list' object has no attribute 'get'
         OtherException("AttributeError")
    ELSE
    LET message ==
            IF Truthy(body)
            THEN DictGet(body, "detail", DictGet(body, "message", StrOf(body)))
            ELSE "Unknown error"
    IN  CASE status_code = 401 -> AuthenticationError(message, body, request_id)
          [] status_code = 403 -> AuthorizationError(message, body, request_id)
          [] status_code = 404 -> NotFoundError(message, body, request_id)
          [] status_code = 422 -> ValidationError(message, body, request_id)
          [] status_code = 429 ->
                LET retry_after ==
                        IF headers # Absent /\ headers # ""
                        THEN ParseFloat(headers)
                        ELSE None
                IN  RateLimitError(message, retry_after, body, request_id)
          [] status_code \notin {401, 403, 404, 422, 429} /\ status_code >= 500 ->
                [ ServerError(message, status_code, body, request_id)
                    EXCEPT !.retry_after = IF headers # Absent /\ headers # ""
                                           THEN ParseFloat(headers) ELSE None ]
          [] OTHER -> YodAPIError(message, status_code, body, request_id)

\* Mutant: the "message" key is preferred to the "detail" key
_handle_error_response_message_first(status_code, body, request_id, headers) ==
    IF Truthy(body) /\ body.t # "dict"
    THEN OtherException("AttributeError")
    ELSE
    LET message ==
            IF Truthy(body)
            THEN DictGet(body, "message", DictGet(body, "detail", StrOf(body)))
            ELSE "Unknown error"
    IN  CASE status_code = 401 -> AuthenticationError(message, body, request_id)
          [] status_code = 403 -> AuthorizationError(message, body, request_id)
          [] status_code = 404 -> NotFoundError(message, body, request_id)
          [] status_code = 422 -> ValidationError(message, body, request_id)
          [] status_code = 429 ->
                LET retry_after ==
                        IF headers # Absent /\ headers # ""
                        THEN ParseFloat(headers)
                        ELSE None
                IN  RateLimitError(message, retry_after, body, request_id)
          [] status_code \notin {401, 403, 404, 422, 429} /\ status_code >= 500 ->
                ServerError(message, status_code, body, request_id)
          [] OTHER -> YodAPIError(message, status_code, body, request_id)

---------------------------------------------------------------------------
(* BaseClient._handle_error_response: the exception it raises.  headers is  *)
(* the value of the response's Retry-After header (Absent: none).           *)

_handle_error_response(status_code, body, request_id, headers) ==
    IF Truthy(body) /\ body.t # "dict"
    THEN \* body.get: 'list' object has no attribute 'get'
         OtherException("AttributeError")
    ELSE
    LET message ==
            IF Truthy(body)
            THEN DictGet(body, "detail", DictGet(body, "message", StrOf(body)))
            ELSE "Unknown error"
    IN  CASE status_code = 401 -> AuthenticationError(message, body, request_id)
          [] status_code = 403 -> AuthorizationError(message, body, request_id)
          [] status_code = 404 -> NotFoundError(message, body, request_id)
          [] status_code = 422 -> ValidationError(message, body, request_id)
          [] status_code = 429 ->
                LET retry_after ==
                        IF headers # Absent /\ headers # ""
                        THEN ParseFloat(headers)
                        ELSE None
                IN  RateLimitError(message, retry_after, body, request_id)
          [] status_code \notin {401, 403, 404, 422, 429} /\ status_code >= 500 ->
                ServerError(message, status_code, body, request_id)
          [] OTHER -> YodAPIError(message, status_code, body, request_id)

---------------------------------------------------------------------------
(* The executor, _retry.py.  An iteration of the attempt loop ends in a     *)
(* return, a raise or a sleep; the step operators give which, from the      *)
(* outcome o of request_func(), the loop variable a and the configuration.  *)

Return(response) == [act |-> "return", exc |-> "none", response |-> response, retry_after |-> None]

Raise(exc) == [act |-> "raise", exc |-> exc, response |-> NoResponse, retry_after |-> None]

Sleep(response, retry_after) ==
    [act |-> "sleep", exc |-> "none", response |-> response, retry_after |-> retry_after]

NoResult == [act |-> "none", exc |-> "none", response |-> NoResponse, retry_after |-> None]

\* Mutant: the Retry-After header is read on a 429 response only
execute_with_retry_sync_step_retry_after_429_only(o, a, cfg) ==
    IF o.k = "response"
    THEN IF o.status_code < 400 THEN Return(o)
         ELSE IF ~should_retry(o.status_code, cfg) THEN Return(o)
         ELSE IF a = cfg.max_retries THEN Return(o)
         ELSE Sleep(o, IF o.status_code = 429 THEN get_retry_after(o) ELSE None)
    ELSE IF o.k \in {"ConnectError", "TimeoutException"}
    THEN IF a = cfg.max_retries THEN Raise(o.k)
         ELSE Sleep(NoResponse, None)
    ELSE Raise(o.k)

\* Mutant: the test for the last attempt is missing
execute_with_retry_sync_step_no_last_attempt_test(o, a, cfg) ==
    IF o.k = "response"
    THEN IF o.status_code < 400 THEN Return(o)
         ELSE IF ~should_retry(o.status_code, cfg) THEN Return(o)
         ELSE Sleep(o, get_retry_after(o))
    ELSE IF o.k \in {"ConnectError", "TimeoutException"}
    THEN Sleep(NoResponse, None)
    ELSE Raise(o.k)

\* Body of the loop of execute_with_retry_sync
execute_with_retry_sync_step(o, a, cfg) ==
    IF o.k = "response"
    THEN IF o.status_code < 400 THEN Return(o)
         ELSE IF ~should_retry(o.status_code, cfg) THEN Return(o)
         ELSE IF a = cfg.max_retries THEN Return(o)
         ELSE Sleep(o, get_retry_after(o))
    ELSE IF o.k \in {"ConnectError", "TimeoutException"}
    THEN IF a = cfg.max_retries THEN Raise(o.k)
         ELSE Sleep(NoResponse, None)
    ELSE Raise(o.k)

\* Mutant: the should_retry test is missing, every status >= 400 is retried
execute_with_retry_async_step_retry_all(o, a, cfg) ==
    IF o.k = "response"
    THEN IF o.status_code < 400 THEN Return(o)
         ELSE IF a = cfg.max_retries THEN Return(o)
         ELSE Sleep(o, get_retry_after(o))
    ELSE IF o.k \in {"ConnectError", "TimeoutException"}
    THEN IF a = cfg.max_retries THEN Raise(o.k)
         ELSE Sleep(NoResponse, None)
    ELSE Raise(o.k)

\* Mutant: every exception of request_func() is retried (except Exception)
execute_with_retry_async_step_retry_any_exception(o, a, cfg) ==
    IF o.k = "response"
    THEN IF o.status_code < 400 THEN Return(o)
         ELSE IF ~should_retry(o.status_code, cfg) THEN Return(o)
         ELSE IF a = cfg.max_retries THEN Return(o)
         ELSE Sleep(o, get_retry_after(o))
    ELSE IF a = cfg.max_retries THEN Raise(o.k)
         ELSE Sleep(NoResponse, None)

\* Body of the loop of execute_with_retry_async
execute_with_retry_async_step(o, a, cfg) ==
    IF o.k = "response"
    THEN IF o.status_code < 400 THEN Return(o)
         ELSE IF ~should_retry(o.status_code, cfg) THEN Return(o)
         ELSE IF a = cfg.max_retries THEN Return(o)
         ELSE Sleep(o, get_retry_after(o))
    ELSE IF o.k \in {"ConnectError", "TimeoutException"}
    THEN IF a = cfg.max_retries THEN Raise(o.k)
         ELSE Sleep(NoResponse, None)
    ELSE Raise(o.k)

\* The code after the loop of execute_with_retry_sync
execute_with_retry_sync_after(last) ==
    IF last # NoResponse THEN Return(last) ELSE Raise("RuntimeError")

\* The code after the loop of execute_with_retry_async
execute_with_retry_async_after(last) ==
    IF last # NoResponse THEN Return(last) ELSE Raise("RuntimeError")

---------------------------------------------------------------------------
(* The facade, client.py and async_client.py: what _request returns or      *)
(* raises, from what the executor returned or raised.                       *)

NoValue == [k |-> "none", content |-> "", body |-> NoBody]

Returned(value) == [k |-> "return", value |-> value, error |-> NoError]

Raises(error) == [k |-> "raise", value |-> NoValue, error |-> error]

NoOutcome == [k |-> "none", value |-> NoValue, error |-> NoError]

\* Mutant: the except clause for httpx.TimeoutException is missing
YodClient_request_timeout_unwrapped(er, raw) ==
    IF er.act = "raise"
    THEN CASE er.exc = "ConnectError"     -> Raises(OtherException("YodConnectionError"))
           [] OTHER                       -> Raises(OtherException(er.exc))
    ELSE LET response   == er.response
             request_id == response.request_id
             headers    == response.retry_after
             body       == _parse_response_body(response.content)
         IN  IF raw
             THEN IF response.status_code >= 400
                  THEN Raises(_handle_error_response(response.status_code, body,
                                                     request_id, headers))
                  ELSE Returned([k |-> "bytes", content |-> response.content,
                                 body |-> NoBody])
             ELSE IF response.status_code >= 400
                  THEN Raises(_handle_error_response(response.status_code, body,
                                                     request_id, headers))
                  ELSE Returned([k |-> "json", content |-> "", body |-> body])

\* Mutant: with raw_response the content is returned whatever the status
YodClient_request_raw_returns_errors(er, raw) ==
    IF er.act = "raise"
    THEN CASE er.exc = "ConnectError"     -> Raises(OtherException("YodConnectionError"))
           [] er.exc = "TimeoutException" -> Raises(OtherException("YodTimeoutError"))
           [] OTHER                       -> Raises(OtherException(er.exc))
    ELSE LET response   == er.response
             request_id == response.request_id
             headers    == response.retry_after
             body       == _parse_response_body(response.content)
         IN  IF raw
             THEN Returned([k |-> "bytes", content |-> response.content,
                            body |-> NoBody])
             ELSE IF response.status_code >= 400
                  THEN Raises(_handle_error_response(response.status_code, body,
                                                     request_id, headers))
                  ELSE Returned([k |-> "json", content |-> "", body |-> body])

\* YodClient._request, after execute_with_retry_sync
YodClient_request(er, raw) ==
    IF er.act = "raise"
    THEN CASE er.exc = "ConnectError"     -> Raises(OtherException("YodConnectionError"))
           [] er.exc = "TimeoutException" -> Raises(OtherException("YodTimeoutError"))
           [] OTHER                       -> Raises(OtherException(er.exc))
    ELSE LET response   == er.response
             request_id == response.request_id
             headers    == response.retry_after
             body       == _parse_response_body(response.content)
         IN  IF raw
             THEN IF response.status_code >= 400
                  THEN Raises(_handle_error_response(response.status_code, body,
                                                     request_id, headers))
                  ELSE Returned([k |-> "bytes", content |-> response.content,
                                 body |-> NoBody])
             ELSE IF response.status_code >= 400
                  THEN Raises(_handle_error_response(response.status_code, body,
                                                     request_id, headers))
                  ELSE Returned([k |-> "json", content |-> "", body |-> body])

\* Mutant: the test for an error status is > 400, not >= 400
AsyncYodClient_request_above_400(er, raw) ==
    IF er.act = "raise"
    THEN CASE er.exc = "ConnectError"     -> Raises(OtherException("YodConnectionError"))
           [] er.exc = "TimeoutException" -> Raises(OtherException("YodTimeoutError"))
           [] OTHER                       -> Raises(OtherException(er.exc))
    ELSE LET response   == er.response
             request_id == response.request_id
             headers    == response.retry_after
             body       == _parse_response_body(response.content)
         IN  IF raw
             THEN IF response.status_code > 400
                  THEN Raises(_handle_error_response(response.status_code, body,
                                                     request_id, headers))
                  ELSE Returned([k |-> "bytes", content |-> response.content,
                                 body |-> NoBody])
             ELSE IF response.status_code > 400
                  THEN Raises(_handle_error_response(response.status_code, body,
                                                     request_id, headers))
                  ELSE Returned([k |-> "json", content |-> "", body |-> body])

\* AsyncYodClient._request, after execute_with_retry_async
AsyncYodClient_request(er, raw) ==
    IF er.act = "raise"
    THEN CASE er.exc = "ConnectError"     -> Raises(OtherException("YodConnectionError"))
           [] er.exc = "TimeoutException" -> Raises(OtherException("YodTimeoutError"))
           [] OTHER                       -> Raises(OtherException(er.exc))
    ELSE LET response   == er.response
             request_id == response.request_id
             headers    == response.retry_after
             body       == _parse_response_body(response.content)
         IN  IF raw
             THEN IF response.status_code >= 400
                  THEN Raises(_handle_error_response(response.status_code, body,
                                                     request_id, headers))
                  ELSE Returned([k |-> "bytes", content |-> response.content,
                                 body |-> NoBody])
             ELSE IF response.status_code >= 400
                  THEN Raises(_handle_error_response(response.status_code, body,
                                                     request_id, headers))
                  ELSE Returned([k |-> "json", content |-> "", body |-> body])

\* _get_client: the connection object, constructed when there is none
_get_client(c) == IF c = 0 THEN 1 ELSE c

---------------------------------------------------------------------------
(* One application of the classifier to a response *)

NoClassification ==
    [ pc |-> "off", status_code |-> 0, content |-> "", retry_after |-> Absent,
      request_id |-> Absent, body |-> NoBody, error |-> NoError ]

\* The value of a variable in the state machines that do not use it
Off == [pc |-> "off"]

---------------------------------------------------------------------------
(* The state machine of one call *)

Init ==
    /\ config \in { RetryConfig(m) : m \in 0..MaxRetries }
    /\ variant \in {"sync", "async"}
    /\ raw_response \in BOOLEAN
    /\ client = 0
    /\ pc = "idle"
    /\ attempt = 0
    /\ last_response = NoResponse
    /\ calls = 0
    /\ history = << >>
    /\ outcome = NoResponse
    /\ sleeps = 0
    /\ delay = 0
    /\ exec_result = NoResult
    /\ result = NoOutcome
    /\ cl = NoClassification
    /\ life = Off
    /\ req = Off
    /\ fn = Off
    /\ eq = Off
    /\ tasks = Off

\* The executor ends with the return or raise r
Finish(r) ==
    /\ pc' = "executed"
    /\ exec_result' = r

\* Mutant: while True, and the attempt index is never advanced
Iterate_attempt_not_advanced(a, after) ==
    /\ pc' = "attempt"
    /\ attempt' = 0
    /\ UNCHANGED exec_result

\* for attempt in range(config.max_retries + 1): the iteration with index a,
\* or the code after the loop when the range is used up
Iterate(a, after) ==
    IF a < config.max_retries + 1
    THEN /\ pc' = "attempt"
         /\ attempt' = a
         /\ UNCHANGED exec_result
    ELSE /\ Finish(after)
         /\ UNCHANGED attempt

\* time.sleep(d): "ok", or the exception it raises (a negative duration)
time_sleep(d) == IF d < 0 THEN "ValueError" ELSE "ok"

\* await asyncio.sleep(d): returns at once for d <= 0
asyncio_sleep(d) == "ok"

\* The effect of one loop iteration whose step is st; slept is what the wait
\* of the variant did. An exception of the wait is not caught by the loop.
Step(o, st) ==
    /\ calls' = calls + 1
    /\ history' = Append(history, Tag(o))
    /\ outcome' = o
    /\ IF st.act = "sleep"
       THEN /\ \E d \in calculate_delay(attempt, config, st.retry_after) : delay' = d
            /\ sleeps' = sleeps + 1
            /\ last_response' = IF st.response # NoResponse THEN st.response
                                ELSE last_response
            /\ LET slept == IF variant = "sync" THEN time_sleep(delay')
                                                  ELSE asyncio_sleep(delay')
               IN  IF slept = "ok"
                   THEN /\ pc' = "sleep"
                        /\ UNCHANGED exec_result
                   ELSE Finish(Raise(slept))
       ELSE /\ Finish(st)
            /\ UNCHANGED << last_response, sleeps, delay >>
    /\ UNCHANGED << config, variant, raw_response, client, attempt, result, cl, aux >>

\* YodClient._request up to the first attempt
SyncRequest ==
    /\ pc = "idle" /\ variant = "sync"
    /\ client' = _get_client(client)
    /\ Iterate(0, execute_with_retry_sync_after(last_response))
    /\ UNCHANGED << config, variant, raw_response, last_response, calls, history, outcome,
                    sleeps, delay, result, cl, aux >>

\* One attempt of execute_with_retry_sync: request_func() and what follows
SyncAttempt(o) ==
    /\ pc = "attempt" /\ variant = "sync"
    /\ Step(o, execute_with_retry_sync_step(o, attempt, config))

\* time.sleep(delay) returns; the loop goes on
SyncWake ==
    /\ pc = "sleep" /\ variant = "sync"
    /\ Iterate(attempt + 1, execute_with_retry_sync_after(last_response))
    /\ UNCHANGED << config, variant, raw_response, client, last_response, calls,
                    history, outcome, sleeps, delay, result, cl, aux >>

\* YodClient._request after the executor
SyncFinish ==
    /\ pc = "executed" /\ variant = "sync"
    /\ result' = YodClient_request(exec_result, raw_response)
    /\ pc' = "done"
    /\ UNCHANGED << config, variant, raw_response, client, attempt, last_response,
                    calls, history, outcome, sleeps, delay, exec_result, cl, aux >>

\* AsyncYodClient._request up to the first attempt
AsyncRequest ==
    /\ pc = "idle" /\ variant = "async"
    /\ client' = _get_client(client)
    /\ Iterate(0, execute_with_retry_async_after(last_response))
    /\ UNCHANGED << config, variant, raw_response, last_response, calls, history, outcome,
                    sleeps, delay, result, cl, aux >>

\* One attempt of execute_with_retry_async: await request_func() and what follows
AsyncAttempt(o) ==
    /\ pc = "attempt" /\ variant = "async"
    /\ Step(o, execute_with_retry_async_step(o, attempt, config))

\* await asyncio.sleep(delay) returns; the loop goes on
AsyncWake ==
    /\ pc = "sleep" /\ variant = "async"
    /\ Iterate(attempt + 1, execute_with_retry_async_after(last_response))
    /\ UNCHANGED << config, variant, raw_response, client, last_response, calls,
                    history, outcome, sleeps, delay, result, cl, aux >>

\* AsyncYodClient._request after the executor
AsyncFinish ==
    /\ pc = "executed" /\ variant = "async"
    /\ result' = AsyncYodClient_request(exec_result, raw_response)
    /\ pc' = "done"
    /\ UNCHANGED << config, variant, raw_response, client, attempt, last_response,
                    calls, history, outcome, sleeps, delay, exec_result, cl, aux >>

Next ==
    \/ SyncRequest
    \/ \E o \in Outcomes : SyncAttempt(o)
    \/ SyncWake
    \/ SyncFinish
    \/ AsyncRequest
    \/ \E o \in Outcomes : AsyncAttempt(o)
    \/ AsyncWake
    \/ AsyncFinish

Spec == Init /\ [][Next]_vars

\* Every transport exchange and every wait returns or raises, and the
\* interpreter goes on running the call: a step that can be taken is taken
FairSpec == Spec /\ WF_vars(Next)

---------------------------------------------------------------------------
(* The classifier alone: a final response with any status >= 400, any body  *)
(* and any headers is parsed and classified as _request does it.            *)

ClassifyStatuses == 400..599

ClassifyContents ==
    { "", "not json", "{}", "[]", "[1]",
      "{\"detail\": \"Invalid token\"}",
      "{\"message\": \"Bad request\"}",
      "{\"detail\": \"Not found\", \"message\": \"Gone\"}",
      "{\"detail\": null}",
      "{\"detail\": null, \"message\": \"Bad request\"}",
      "{\"error\": \"Server error\"}" }

ClassifyRetryAfter ==
    {Absent, "", "60", "30", "1.5", "0", "-1", "Wed, 21 Oct 2015 07:28:00 GMT"}

ClassifyRequestIds == {Absent, "req-123"}

InitClassify ==
    /\ config = RetryConfig(0)
    /\ variant = "sync"
    /\ raw_response = FALSE
    /\ client = 0
    /\ pc = "off"
    /\ attempt = 0
    /\ last_response = NoResponse
    /\ calls = 0
    /\ history = << >>
    /\ outcome = NoResponse
    /\ sleeps = 0
    /\ delay = 0
    /\ exec_result = NoResult
    /\ result = NoOutcome
    /\ cl \in [ pc : {"in"}, status_code : ClassifyStatuses, content : ClassifyContents,
                retry_after : ClassifyRetryAfter, request_id : ClassifyRequestIds,
                body : {NoBody}, error : {NoError} ]
    /\ life = Off
    /\ req = Off
    /\ fn = Off
    /\ eq = Off
    /\ tasks = Off

\* body = self._parse_response_body(response.content);
\* self._handle_error_response(response.status_code, body, request_id, headers)
Classify ==
    /\ cl.pc = "in"
    /\ LET body == _parse_response_body(cl.content)
       IN  cl' = [ cl EXCEPT !.pc = "out", !.body = body,
                     !.error = _handle_error_response(cl.status_code, body,
                                                      cl.request_id, cl.retry_after) ]
    /\ UNCHANGED << config, variant, raw_response, client, pc, attempt, last_response,
                    calls, history, outcome, sleeps, delay, exec_result, result, aux >>

NextClassify == Classify

SpecClassify == InitClassify /\ [][NextClassify]_vars

---------------------------------------------------------------------------
(* The functions of _retry.py alone: should_retry, calculate_delay and      *)
(* get_retry_after applied to one input.  Delays of a configuration are     *)
(* non-negative, as everywhere the library and its tests build one.         *)

MaxAttempt == 4

InitialDelays == {0, 500, 1000, 10000}

MaxDelays == {5000, 15000, 30000}

Multipliers == {1, 2, 3}

Jitters == {0, 10, 50, 100}

RetryOnStatus == { {429, 500, 502, 503, 504}, {}, {418, 503} }

RetryAfters == {None, Some(-1000), Some(0), Some(10000), Some(100000)}

FnStatuses == 100..599

\* RetryConfig(...) with the given fields in place of the defaults
DelayConfigs ==
    { [ RetryConfig(0) EXCEPT !.initial_delay = i, !.max_delay = x,
                              !.backoff_multiplier = b, !.jitter = j ] :
        i \in InitialDelays, x \in MaxDelays, b \in Multipliers, j \in Jitters }

PolicyConfigs == { [ RetryConfig(0) EXCEPT !.retry_on_status = r ] : r \in RetryOnStatus }

\* An application of function f that has not been evaluated
FnIn(f, status_code, cfg, a, retry_after, header) ==
    [ pc |-> "in", f |-> f, status_code |-> status_code, cfg |-> cfg, attempt |-> a,
      retry_after |-> retry_after, header |-> header,
      out_b |-> FALSE, out_d |-> 0, out_o |-> None ]

InitRetry ==
    /\ config = RetryConfig(0)
    /\ variant = "sync"
    /\ raw_response = FALSE
    /\ client = 0
    /\ pc = "off"
    /\ attempt = 0
    /\ last_response = NoResponse
    /\ calls = 0
    /\ history = << >>
    /\ outcome = NoResponse
    /\ sleeps = 0
    /\ delay = 0
    /\ exec_result = NoResult
    /\ result = NoOutcome
    /\ cl = NoClassification
    /\ life = Off
    /\ req = Off
    /\ eq = Off
    /\ tasks = Off
    /\ fn \in { FnIn("should_retry", st, cfg, 0, None, Absent) :
                    st \in FnStatuses, cfg \in PolicyConfigs }
          \cup { FnIn("calculate_delay", 0, cfg, a, ra, Absent) :
                    cfg \in DelayConfigs, a \in 0..MaxAttempt, ra \in RetryAfters }
          \cup { FnIn("get_retry_after", 0, RetryConfig(0), 0, None, h) :
                    h \in ClassifyRetryAfter }

ApplyShouldRetry ==
    /\ fn.pc = "in" /\ fn.f = "should_retry"
    /\ fn' = [ fn EXCEPT !.pc = "out", !.out_b = should_retry(fn.status_code, fn.cfg) ]
    /\ UNCHANGED << call, cl, eq, tasks, life, req >>

ApplyCalculateDelay ==
    /\ fn.pc = "in" /\ fn.f = "calculate_delay"
    /\ \E d \in calculate_delay(fn.attempt, fn.cfg, fn.retry_after) :
          fn' = [ fn EXCEPT !.pc = "out", !.out_d = d ]
    /\ UNCHANGED << call, cl, eq, tasks, life, req >>

ApplyGetRetryAfter ==
    /\ fn.pc = "in" /\ fn.f = "get_retry_after"
    /\ fn' = [ fn EXCEPT !.pc = "out",
                         !.out_o = get_retry_after([retry_after |-> fn.header]) ]
    /\ UNCHANGED << call, cl, eq, tasks, life, req >>

NextRetry ==
    \/ ApplyShouldRetry
    \/ ApplyCalculateDelay
    \/ ApplyGetRetryAfter

SpecRetry == InitRetry /\ [][NextRetry]_vars

---------------------------------------------------------------------------
(* The two executors side by side: execute_with_retry_sync and              *)
(* execute_with_retry_async are given the same RetryConfig, with jitter 0,  *)
(* and the same transport outcomes; the n-th request_func() call of either  *)
(* has the same outcome.  Of each executor the state keeps its position,    *)
(* its loop variable, its last_response, the number of its transport calls, *)
(* the durations it passed to its wait, and what it returned or raised.     *)

EquivMaxDelays == { 750, 30000 }

EquivMultipliers == { 1, 2 }

EquivConfigs ==
    { [ RetryConfig(m) EXCEPT !.jitter = 0, !.max_delay = md, !.backoff_multiplier = bm ] :
        m \in 0..MaxRetries, md \in EquivMaxDelays, bm \in EquivMultipliers }

EquivOutcomes ==
    [ k : {"response"}, status_code : {200, 404, 429, 503},
      retry_after : RetryAfterHeaders \cup {"2"},
      request_id : {"req-123"}, content : {""} ]
    \cup Failures

\* An executor entering its loop
Entered ==
    [ pc |-> "attempt", attempt |-> 0, last_response |-> NoResponse, calls |-> 0,
      waits |-> << >>, result |-> NoResult ]

\* Mutant: the backoff starts again at exponent 0 after a connect or timeout
\* failure
Advance_backoff_restarts_on_failure(e, o, v, cfg) ==
    LET st == IF v = "sync" THEN execute_with_retry_sync_step(o, e.attempt, cfg)
                            ELSE execute_with_retry_async_step(o, e.attempt, cfg)
        d  == CHOOSE x \in calculate_delay(IF o.k = "response" THEN e.attempt ELSE 0,
                                          cfg, st.retry_after) : TRUE
        slept == IF v = "sync" THEN time_sleep(d) ELSE asyncio_sleep(d)
        last  == IF st.response # NoResponse THEN st.response ELSE e.last_response
        after == IF v = "sync" THEN execute_with_retry_sync_after(last)
                               ELSE execute_with_retry_async_after(last)
    IN  IF st.act # "sleep"
        THEN [ e EXCEPT !.pc = "done", !.calls = @ + 1, !.result = st ]
        ELSE IF slept # "ok"
        THEN [ e EXCEPT !.pc = "done", !.calls = @ + 1, !.waits = Append(@, d),
                        !.last_response = last, !.result = Raise(slept) ]
        ELSE IF e.attempt + 1 < cfg.max_retries + 1
        THEN [ e EXCEPT !.attempt = @ + 1, !.calls = @ + 1, !.waits = Append(@, d),
                        !.last_response = last ]
        ELSE [ e EXCEPT !.pc = "done", !.calls = @ + 1, !.waits = Append(@, d),
                        !.last_response = last, !.result = after ]

\* One iteration of the loop of executor v (sync or async) in state e, whose
\* request_func() call has the outcome o.  With jitter 0, calculate_delay has
\* one value.
Advance(e, o, v, cfg) ==
    LET st == IF v = "sync" THEN execute_with_retry_sync_step(o, e.attempt, cfg)
                            ELSE execute_with_retry_async_step(o, e.attempt, cfg)
        d  == CHOOSE x \in calculate_delay(e.attempt, cfg, st.retry_after) : TRUE
        slept == IF v = "sync" THEN time_sleep(d) ELSE asyncio_sleep(d)
        last  == IF st.response # NoResponse THEN st.response ELSE e.last_response
        after == IF v = "sync" THEN execute_with_retry_sync_after(last)
                               ELSE execute_with_retry_async_after(last)
    IN  IF st.act # "sleep"
        THEN [ e EXCEPT !.pc = "done", !.calls = @ + 1, !.result = st ]
        ELSE IF slept # "ok"
        THEN [ e EXCEPT !.pc = "done", !.calls = @ + 1, !.waits = Append(@, d),
                        !.last_response = last, !.result = Raise(slept) ]
        ELSE IF e.attempt + 1 < cfg.max_retries + 1
        THEN [ e EXCEPT !.attempt = @ + 1, !.calls = @ + 1, !.waits = Append(@, d),
                        !.last_response = last ]
        ELSE [ e EXCEPT !.pc = "done", !.calls = @ + 1, !.waits = Append(@, d),
                        !.last_response = last, !.result = after ]

InitEquiv ==
    /\ config = RetryConfig(0)
    /\ variant = "sync"
    /\ raw_response = FALSE
    /\ client = 0
    /\ pc = "off"
    /\ attempt = 0
    /\ last_response = NoResponse
    /\ calls = 0
    /\ history = << >>
    /\ outcome = NoResponse
    /\ sleeps = 0
    /\ delay = 0
    /\ exec_result = NoResult
    /\ result = NoOutcome
    /\ cl = NoClassification
    /\ life = Off
    /\ req = Off
    /\ fn = Off
    /\ tasks = Off
    /\ eq \in { [ pc |-> "run", cfg |-> c, outs |-> << >>, sync |-> Entered,
                  async |-> Entered ] : c \in EquivConfigs }

\* The next request_func() call of every executor still in its loop has the
\* outcome o
EquivAttempt(o) ==
    /\ eq.pc = "run"
    /\ eq.sync.pc = "attempt" \/ eq.async.pc = "attempt"
    /\ eq' = [ eq EXCEPT
                 !.outs  = Append(@, o),
                 !.sync  = IF @.pc = "attempt" THEN Advance(@, o, "sync", eq.cfg) ELSE @,
                 !.async = IF @.pc = "attempt" THEN Advance(@, o, "async", eq.cfg) ELSE @ ]
    /\ UNCHANGED << call, cl, fn, tasks, life, req >>

NextEquiv == \E o \in EquivOutcomes : EquivAttempt(o)

SpecEquiv == InitEquiv /\ [][NextEquiv]_vars

---------------------------------------------------------------------------
(* Concurrent calls on one client: threads calling YodClient._request       *)
(* (mode "sync") or tasks of one event loop awaiting                        *)
(* AsyncYodClient._request (mode "async").  The calls share self._client    *)
(* and self.retry_config.  A transport exchange is in flight between the    *)
(* call of request_func() and its return or raise.  Of each call the state  *)
(* keeps its position, the connection object it obtained, its loop          *)
(* variable, the numbers of exchanges it started and completed, the number  *)
(* of its waits that finished, the number of its exchanges in flight, what  *)
(* and what its executor returned or raised; overlap tells whether some     *)
(* call started an exchange while another call was waiting.                 *)

NumTasks == 2

\* The max_retries of the client the calls share
TaskRetries == {0, 1}

Tasks == 1..NumTasks

\* A response with the given status and Retry-After header
TaskResponse(status_code, h) ==
    [ k |-> "response", status_code |-> status_code, retry_after |-> h,
      request_id |-> "req-123", content |-> "" ]

TaskOutcomes ==
    { TaskResponse(200, Absent), TaskResponse(503, Absent), TaskResponse(503, "-1"),
      Raised("ConnectError") }

NewTask ==
    [ pc |-> "idle", conn |-> 0, used |-> {}, attempt |-> 0, started |-> 0,
      completed |-> 0, waited |-> 0, inflight |-> 0, result |-> NoResult ]

\* Mutant: the coroutine waits with the blocking time.sleep
wait_suspends_blocking(v) == IF v = "sync" THEN "thread" ELSE "loop"

\* What the wait between attempts suspends: time.sleep the calling thread,
\* await asyncio.sleep the awaiting task
wait_suspends(v) == IF v = "sync" THEN "thread" ELSE "task"

\* Call u can take a step: no wait of another call holds the event loop
Runnable(u) ==
    \A t \in Tasks \ {u} :
        ~( tasks.t[t].pc = "sleep" /\ wait_suspends(tasks.mode) = "loop" )

InitTasks ==
    /\ config = RetryConfig(0)
    /\ variant = "sync"
    /\ raw_response = FALSE
    /\ client = 0
    /\ pc = "off"
    /\ attempt = 0
    /\ last_response = NoResponse
    /\ calls = 0
    /\ history = << >>
    /\ outcome = NoResponse
    /\ sleeps = 0
    /\ delay = 0
    /\ exec_result = NoResult
    /\ result = NoOutcome
    /\ cl = NoClassification
    /\ life = Off
    /\ req = Off
    /\ fn = Off
    /\ eq = Off
    /\ tasks \in { [ pc |-> "run", mode |-> v, cfg |-> RetryConfig(m), client |-> 0,
                      made |-> 0, assigned |-> << >>, overlap |-> FALSE,
                      closing |-> 0, closed |-> {},
                      t |-> [ u \in Tasks |-> NewTask ] ] :
                     v \in {"sync", "async"}, m \in TaskRetries }

\* Mutant: the coroutine too can be suspended between the test of
\* self._client and the assignment
TaskGetClient_async_suspends(u) ==
    /\ tasks.pc = "run" /\ tasks.t[u].pc = "idle" /\ Runnable(u)
    /\ tasks' = [ tasks EXCEPT !.t[u].pc = IF tasks.client = 0 THEN "construct"
                                                                 ELSE "return" ]
    /\ UNCHANGED << call, cl, fn, eq, life, req >>

\* client = self._get_client().  A coroutine runs it without suspension, as
\* one step.  A thread can be preempted between its steps: the test of
\* self._client, the construction of the connection object, the assignment
\* to self._client, and the read of self._client for the return.  made
\* counts the connection objects constructed (the n-th one is n); assigned
\* lists the objects assigned to self._client, in the order of assignment.
TaskGetClient(u) ==
    /\ tasks.pc = "run" /\ tasks.t[u].pc = "idle" /\ Runnable(u)
    /\ IF tasks.mode = "sync"
       THEN tasks' = [ tasks EXCEPT !.t[u].pc = IF tasks.client = 0 THEN "construct"
                                                                    ELSE "return" ]
       ELSE IF tasks.client # 0
       THEN tasks' = [ tasks EXCEPT !.t[u].pc = "attempt", !.t[u].conn = tasks.client ]
       ELSE tasks' = [ tasks EXCEPT !.made = @ + 1, !.client = tasks.made + 1,
                                    !.assigned = Append(@, tasks.made + 1),
                                    !.t[u].pc = "attempt", !.t[u].conn = tasks.made + 1 ]
    /\ UNCHANGED << call, cl, fn, eq, life, req >>

\* httpx.Client(...) in a thread that saw self._client is None
TaskConstruct(u) ==
    /\ tasks.pc = "run" /\ tasks.t[u].pc = "construct"
    /\ tasks' = [ tasks EXCEPT !.made = @ + 1,
                                !.t[u].pc = "assign", !.t[u].conn = tasks.made + 1 ]
    /\ UNCHANGED << call, cl, fn, eq, life, req >>

\* Mutant: the new object is assigned only if self._client is still None
TaskAssign_if_still_none(u) ==
    /\ tasks.pc = "run" /\ tasks.t[u].pc = "assign"
    /\ tasks' = [ tasks EXCEPT !.client = IF @ = 0 THEN tasks.t[u].conn ELSE @,
                                !.assigned = Append(@, tasks.t[u].conn),
                                !.t[u].pc = "return" ]
    /\ UNCHANGED << call, cl, fn, eq, life, req >>

\* self._client = <the object constructed>
TaskAssign(u) ==
    /\ tasks.pc = "run" /\ tasks.t[u].pc = "assign"
    /\ tasks' = [ tasks EXCEPT !.client = tasks.t[u].conn,
                                !.assigned = Append(@, tasks.t[u].conn),
                                !.t[u].pc = "return" ]
    /\ UNCHANGED << call, cl, fn, eq, life, req >>

\* return self._client
TaskReturn(u) ==
    /\ tasks.pc = "run" /\ tasks.t[u].pc = "return"
    /\ tasks' = [ tasks EXCEPT !.t[u].pc = "attempt", !.t[u].conn = tasks.client ]
    /\ UNCHANGED << call, cl, fn, eq, life, req >>

\* Mutant: the next request is sent without waiting for the sleep to end
TaskSend_wait_not_awaited(u) ==
    /\ tasks.pc = "run" /\ tasks.t[u].pc \in {"attempt", "sleep"} /\ Runnable(u)
    /\ tasks' = [ tasks EXCEPT
                    !.t[u].pc = "inflight",
                    !.t[u].started = @ + 1,
                    !.t[u].inflight = @ + 1,
                    !.t[u].used = @ \cup {tasks.t[u].conn},
                    !.overlap = @ \/ \E t \in Tasks \ {u} : tasks.t[t].pc = "sleep" ]
    /\ UNCHANGED << call, cl, fn, eq, life, req >>

\* Mutant: make_request reads self._client at each attempt
TaskSend_reads_self_client(u) ==
    /\ tasks.pc = "run" /\ tasks.t[u].pc = "attempt" /\ Runnable(u)
    /\ tasks' = [ tasks EXCEPT
                    !.t[u].pc = "inflight",
                    !.t[u].started = @ + 1,
                    !.t[u].inflight = @ + 1,
                    !.t[u].used = @ \cup {tasks.client},
                    !.overlap = @ \/ \E t \in Tasks \ {u} : tasks.t[t].pc = "sleep" ]
    /\ UNCHANGED << call, cl, fn, eq, life, req >>

\* request_func() is called: client.request(...) on the connection object the
\* call obtained (the closure's client).  On None it raises AttributeError,
\* on a closed object the transport library raises RuntimeError; the executor
\* catches neither.  Otherwise the transport exchange of the attempt starts.
TaskSend(u) ==
    /\ tasks.pc = "run" /\ tasks.t[u].pc = "attempt" /\ Runnable(u)
    /\ IF tasks.t[u].conn = 0
       THEN tasks' = [ tasks EXCEPT !.t[u].pc = "done",
                                    !.t[u].result = Raise("AttributeError") ]
       ELSE IF tasks.t[u].conn \in tasks.closed
       THEN tasks' = [ tasks EXCEPT !.t[u].pc = "done",
                                    !.t[u].result = Raise("RuntimeError"),
                                    !.t[u].used = @ \cup {tasks.t[u].conn} ]
       ELSE tasks' = [ tasks EXCEPT
                    !.t[u].pc = "inflight",
                    !.t[u].started = @ + 1,
                    !.t[u].inflight = @ + 1,
                    !.t[u].used = @ \cup {tasks.t[u].conn},
                    !.overlap = @ \/ \E t \in Tasks \ {u} : tasks.t[t].pc = "sleep" ]
    /\ UNCHANGED << call, cl, fn, eq, life, req >>

\* request_func() returns or raises o, and the loop body goes on to its
\* return, its raise or its wait
TaskReceive(u, o) ==
    /\ tasks.pc = "run" /\ tasks.t[u].pc = "inflight" /\ Runnable(u)
    /\ LET st == IF tasks.mode = "sync"
                 THEN execute_with_retry_sync_step(o, tasks.t[u].attempt, tasks.cfg)
                 ELSE execute_with_retry_async_step(o, tasks.t[u].attempt, tasks.cfg)
           ended(r) == [ tasks EXCEPT !.t[u].pc = "done", !.t[u].result = r,
                                      !.t[u].completed = @ + 1, !.t[u].inflight = @ - 1 ]
       IN  IF st.act # "sleep"
           THEN tasks' = ended(st)
           ELSE \E d \in calculate_delay(tasks.t[u].attempt, tasks.cfg, st.retry_after) :
                   LET slept == IF tasks.mode = "sync" THEN time_sleep(d)
                                                      ELSE asyncio_sleep(d)
                   IN  IF slept # "ok"
                       THEN tasks' = ended(Raise(slept))
                       ELSE tasks' = [ tasks EXCEPT !.t[u].pc = "sleep",
                                                    !.t[u].completed = @ + 1,
                                                    !.t[u].inflight = @ - 1 ]
    /\ UNCHANGED << call, cl, fn, eq, life, req >>

\* The wait of call u ends and its loop goes on
TaskWake(u) ==
    /\ tasks.pc = "run" /\ tasks.t[u].pc = "sleep"
    /\ tasks' = [ tasks EXCEPT !.t[u].pc = "attempt", !.t[u].attempt = @ + 1,
                                !.t[u].waited = @ + 1 ]
    /\ UNCHANGED << call, cl, fn, eq, life, req >>

NextTasks ==
    \E u \in Tasks :
        \/ TaskGetClient(u)
        \/ TaskConstruct(u)
        \/ TaskAssign(u)
        \/ TaskReturn(u)
        \/ TaskSend(u)
        \/ \E o \in TaskOutcomes : TaskReceive(u, o)
        \/ TaskWake(u)

SpecTasks == InitTasks /\ [][NextTasks]_vars

\* close() by the owner of the client, once, while calls are in progress:
\* self._client.close() / await self._client.aclose() on the object
\* referenced.  The assignment self._client = None is a later step: a thread
\* can be preempted before it, and the await suspends the coroutine.
TaskCloseBegin ==
    /\ tasks.pc = "run" /\ tasks.closing = 0 /\ tasks.client # 0 /\ tasks.closed = {}
    /\ \A t \in Tasks : ~( tasks.t[t].pc = "sleep" /\ wait_suspends(tasks.mode) = "loop" )
    /\ tasks' = [ tasks EXCEPT !.closing = tasks.client,
                                !.closed = @ \cup {tasks.client} ]
    /\ UNCHANGED << call, cl, fn, eq, life, req >>

\* self._client = None
TaskCloseEnd ==
    /\ tasks.pc = "run" /\ tasks.closing # 0
    /\ tasks' = [ tasks EXCEPT !.closing = 0, !.client = 0 ]
    /\ UNCHANGED << call, cl, fn, eq, life, req >>

\* The transport outcomes of the calls a close() runs into: one that ends
\* the call and one that makes it wait
CloseOutcomes == { TaskResponse(200, Absent), TaskResponse(503, Absent) }

NextClose ==
    \/ \E u \in Tasks :
        \/ TaskGetClient(u)
        \/ TaskConstruct(u)
        \/ TaskAssign(u)
        \/ TaskReturn(u)
        \/ TaskSend(u)
        \/ \E o \in CloseOutcomes : TaskReceive(u, o)
        \/ TaskWake(u)
    \/ TaskCloseBegin
    \/ TaskCloseEnd

SpecClose == InitTasks /\ [][NextClose]_vars

---------------------------------------------------------------------------
(* One client used by one caller, sync or async: it is constructed, and     *)
(* then requests, close() calls and the entry and exit of its               *)
(* context-manager block follow one another.  The state keeps the           *)
(* connection object self._client references (0: None), the number of       *)
(* connection objects constructed (the n-th one is n), the set of those     *)
(* closed, the position with respect to the block, the number of requests   *)
(* made, and the latest operation.                                          *)

MaxRequests == 3

\* YodClient(...): self._client = None
NewClient(v) ==
    [ pc |-> "run", mode |-> v, client |-> 0, made |-> 0, closed |-> {},
      block |-> "out", requests |-> 0, last |-> "init" ]

\* Mutant: close() closes the connection object and keeps the reference
close_keeps_reference(l) ==
    IF l.client # 0
    THEN [ l EXCEPT !.closed = @ \cup {l.client} ]
    ELSE l

\* close(): the effect on the client l
close(l) ==
    IF l.client # 0
    THEN [ l EXCEPT !.closed = @ \cup {l.client}, !.client = 0 ]
    ELSE l

InitLife ==
    /\ config = RetryConfig(0)
    /\ variant = "sync"
    /\ raw_response = FALSE
    /\ client = 0
    /\ pc = "off"
    /\ attempt = 0
    /\ last_response = NoResponse
    /\ calls = 0
    /\ history = << >>
    /\ outcome = NoResponse
    /\ sleeps = 0
    /\ delay = 0
    /\ exec_result = NoResult
    /\ result = NoOutcome
    /\ cl = NoClassification
    /\ fn = Off
    /\ eq = Off
    /\ tasks = Off
    /\ req = Off
    /\ life \in { NewClient(v) : v \in {"sync", "async"} }

\* with client: / async with client: __enter__ returns self
LifeEnter ==
    /\ life.pc = "run" /\ life.block \in {"out", "left"}
    /\ life' = [ life EXCEPT !.block = "in", !.last = "enter" ]
    /\ UNCHANGED << call, cl, fn, eq, tasks, req >>

\* Mutant: after a close() the request takes up the object made last again
LifeRequest_reuses_last_object(raises) ==
    /\ life.pc = "run" /\ life.block # "raising"
    /\ life.requests < MaxRequests
    /\ life' = [ life EXCEPT
                   !.client = IF @ # 0 THEN @
                              ELSE IF life.made > 0 THEN life.made ELSE 1,
                   !.made = IF life.client = 0 /\ @ = 0 THEN 1 ELSE @,
                   !.requests = @ + 1,
                   !.block = IF @ = "in" /\ raises THEN "raising" ELSE @,
                   !.last = "request" ]
    /\ UNCHANGED << call, cl, fn, eq, tasks, req >>

\* One _request from its start to its return or raise: _get_client
\* constructs the connection object when there is none.  A request that
\* raises inside the block leaves the block by that exception.
LifeRequest(raises) ==
    /\ life.pc = "run" /\ life.block # "raising"
    /\ life.requests < MaxRequests
    /\ life' = [ life EXCEPT
                   !.client = IF @ = 0 THEN life.made + 1 ELSE @,
                   !.made = IF life.client = 0 THEN @ + 1 ELSE @,
                   !.requests = @ + 1,
                   !.block = IF @ = "in" /\ raises THEN "raising" ELSE @,
                   !.last = "request" ]
    /\ UNCHANGED << call, cl, fn, eq, tasks, req >>

\* client.close() / await client.close()
LifeClose ==
    /\ life.pc = "run" /\ life.block # "raising"
    /\ life' = [ close(life) EXCEPT !.last = "close" ]
    /\ UNCHANGED << call, cl, fn, eq, tasks, req >>

\* The block is left, at its end or by an exception: __exit__ calls close()
LifeExit ==
    /\ life.pc = "run" /\ life.block \in {"in", "raising"}
    /\ life' = [ close(life) EXCEPT !.block = "left", !.last = "exit" ]
    /\ UNCHANGED << call, cl, fn, eq, tasks, req >>

NextLife ==
    \/ LifeEnter
    \/ \E raises \in BOOLEAN : LifeRequest(raises)
    \/ LifeClose
    \/ LifeExit

SpecLife == InitLife /\ [][NextLife]_vars

---------------------------------------------------------------------------
(* The request of one call: the headers _build_headers constructs, the      *)
(* default headers of the connection object, the query parameters, and the  *)
(* request that reaches the transport on each attempt.  A dict of headers   *)
(* is a function from the header names of the model to a value (Absent: no  *)
(* such key); keys are case-sensitive in a dict and are not in httpx.       *)

HeaderNames ==
    { "Content-Type", "Accept", "User-Agent", "Authorization", "X-User-Id",
      "X-Custom", "content-type" }

NoHeaders == [ n \in HeaderNames |-> Absent ]

\* {name: value}
OneHeader(name, value) == [ NoHeaders EXCEPT ![name] = value ]

\* h.update(c)
DictUpdate(h, c) == [ n \in HeaderNames |-> IF c[n] # Absent THEN c[n] ELSE h[n] ]

\* h.pop(name, None)
DictPop(h, name) == [ h EXCEPT ![name] = Absent ]

\* bool(s) of an optional string
TruthyStr(s) == s # PyNone /\ s # ""

\* yod._version.__version__
__version__ == "<version>"

CustomHeaders ==
    { NoHeaders, OneHeader("X-Custom", "1"), OneHeader("Content-Type", "text/plain"),
      OneHeader("content-type", "text/plain"), OneHeader("Authorization", "Basic abc"),
      OneHeader("User-Agent", "my-app/1.0"), OneHeader("X-User-Id", "other") }

\* self.config, as far as _build_headers reads it
ClientConfigs ==
    [ api_key : {PyNone, "", "sk-yod-key"}, bearer_token : {PyNone, "jwt-token"},
      user_id : {PyNone, "", "user-123"}, custom_headers : CustomHeaders ]

\* Mutant: the bearer token is preferred to the API key
_build_headers_bearer_first(c) ==
    LET std  == [ NoHeaders EXCEPT !["Content-Type"] = "application/json",
                                   !["Accept"] = "application/json",
                                   !["User-Agent"] = "yod-python-sdk/" \o __version__ ]
        auth == IF TruthyStr(c.bearer_token)
                THEN [ std EXCEPT !["Authorization"] = "Bearer " \o c.bearer_token ]
                ELSE IF TruthyStr(c.api_key)
                THEN [ std EXCEPT !["Authorization"] = "Bearer " \o c.api_key ]
                ELSE std
        user == IF TruthyStr(c.user_id)
                THEN [ auth EXCEPT !["X-User-Id"] = c.user_id ]
                ELSE auth
    IN  DictUpdate(user, c.custom_headers)

\* Mutant: the custom headers are merged first, the others over them
_build_headers_custom_first(c) ==
    LET std  == [ c.custom_headers EXCEPT !["Content-Type"] = "application/json",
                                          !["Accept"] = "application/json",
                                          !["User-Agent"] = "yod-python-sdk/" \o __version__ ]
        auth == IF TruthyStr(c.api_key)
                THEN [ std EXCEPT !["Authorization"] = "Bearer " \o c.api_key ]
                ELSE IF TruthyStr(c.bearer_token)
                THEN [ std EXCEPT !["Authorization"] = "Bearer " \o c.bearer_token ]
                ELSE std
    IN  IF TruthyStr(c.user_id)
        THEN [ auth EXCEPT !["X-User-Id"] = c.user_id ]
        ELSE auth

\* BaseClient._build_headers
_build_headers(c) ==
    LET std  == [ NoHeaders EXCEPT !["Content-Type"] = "application/json",
                                   !["Accept"] = "application/json",
                                   !["User-Agent"] = "yod-python-sdk/" \o __version__ ]
        auth == IF TruthyStr(c.api_key)
                THEN [ std EXCEPT !["Authorization"] = "Bearer " \o c.api_key ]
                ELSE IF TruthyStr(c.bearer_token)
                THEN [ std EXCEPT !["Authorization"] = "Bearer " \o c.bearer_token ]
                ELSE std
        user == IF TruthyStr(c.user_id)
                THEN [ auth EXCEPT !["X-User-Id"] = c.user_id ]
                ELSE auth
    IN  DictUpdate(user, c.custom_headers)

\* httpx compares header names without regard to case; of the names of the
\* model only Content-Type occurs in two spellings
WireName(n) == IF n = "Content-Type" THEN "content-type" ELSE n

WireNames == { WireName(n) : n \in HeaderNames }

\* httpx.Headers(h): every entry of the dict, under its case-folded name
Headers(h) ==
    [ w \in WireNames |->
        { h[n] : n \in { m \in HeaderNames : WireName(m) = w /\ h[m] # Absent } } ]

\* httpx.Headers.update: the entries of b replace those of the same name
HeadersUpdate(a, b) == [ w \in WireNames |-> IF b[w] # {} THEN b[w] ELSE a[w] ]

\* The Content-Type httpx derives from the payload of a request
Payloads == { "json", "files", "none" }

EncodedContentType(payload) ==
    CASE payload = "files" -> "multipart/form-data; boundary=<boundary>"
      [] payload = "json"  -> "application/json"
      [] payload = "none"  -> Absent

\* client.request(..., headers=h, ...): the connection's default headers
\* updated with the request's, then the payload's Content-Type set only if
\* no Content-Type is there yet (setdefault)
client_request(default, h, payload) ==
    LET merged == HeadersUpdate(default, Headers(h))
        ct     == EncodedContentType(payload)
    IN  [ merged EXCEPT !["content-type"] = IF @ = {} /\ ct # Absent THEN {ct} ELSE @ ]

\* Query parameters: a dict over two keys, or None
ParamKeys == { "a", "b" }

PyFalse == "<False>"

PyZero == "<0>"

ParamValues == { Absent, PyNone, PyFalse, PyZero, "", "x" }

NoParams == [ k \in ParamKeys |-> Absent ]

ParamArgs ==
    { [ some |-> FALSE, d |-> NoParams ] } \cup [ some : {TRUE}, d : [ParamKeys -> ParamValues] ]

\* Mutant: entries with a falsy value are dropped too
filter_params_truthy(p) ==
    IF p.some /\ p.d # NoParams
    THEN [ k \in ParamKeys |->
             IF p.d[k] \in {PyNone, PyFalse, PyZero, ""} THEN Absent ELSE p.d[k] ]
    ELSE p.d

\* if params: params = {k: v for k, v in params.items() if v is not None}
filter_params(p) ==
    IF p.some /\ p.d # NoParams
    THEN [ k \in ParamKeys |-> IF p.d[k] = PyNone THEN Absent ELSE p.d[k] ]
    ELSE p.d

\* make_request: the headers argument of client.request
make_request_headers(c, payload) ==
    IF payload = "files"
    THEN DictPop(_build_headers(c), "Content-Type")
    ELSE NoHeaders

RequestRetries == { 0, 1 }

NoWire == [ w \in WireNames |-> {} ]

NoSent == [ headers |-> NoWire, arg |-> NoHeaders, params |-> NoParams ]

InitRequest ==
    /\ req \in [ pc : {"idle"}, mode : {"sync", "async"}, cfg : ClientConfigs,
                  payload : Payloads, params : ParamArgs, max_retries : RequestRetries,
                  built : {NoHeaders}, default : {NoWire}, filtered : {NoParams},
                  sent : {NoSent}, attempts : {0} ]
    /\ config = RetryConfig(0)
    /\ variant = "sync"
    /\ raw_response = FALSE
    /\ client = 0
    /\ pc = "off"
    /\ attempt = 0
    /\ last_response = NoResponse
    /\ calls = 0
    /\ history = << >>
    /\ outcome = NoResponse
    /\ sleeps = 0
    /\ delay = 0
    /\ exec_result = NoResult
    /\ result = NoOutcome
    /\ cl = NoClassification
    /\ fn = Off
    /\ eq = Off
    /\ tasks = Off
    /\ life = Off

\* _request up to the call of the executor: the connection object is made
\* with the built headers as its defaults, and the parameters are filtered
ReqStart ==
    /\ req.pc = "idle"
    /\ req' = [ req EXCEPT !.pc = "attempt",
                           !.built = _build_headers(req.cfg),
                           !.default = Headers(_build_headers(req.cfg)),
                           !.filtered = filter_params(req.params) ]
    /\ UNCHANGED << call, cl, fn, eq, tasks, life >>

\* One call of make_request by the executor; again: the outcome is one the
\* executor retries
ReqAttempt(again) ==
    /\ req.pc = "attempt"
    /\ LET h == make_request_headers(req.cfg, req.payload)
       IN  req' = [ req EXCEPT
                      !.sent = [ headers |-> client_request(req.default, h, req.payload),
                                 arg |-> h, params |-> req.filtered ],
                      !.attempts = @ + 1,
                      !.pc = IF again /\ req.attempts < req.max_retries
                             THEN "attempt" ELSE "done" ]
    /\ UNCHANGED << call, cl, fn, eq, tasks, life >>

NextRequest ==
    \/ ReqStart
    \/ \E again \in BOOLEAN : ReqAttempt(again)

SpecRequest == InitRequest /\ [][NextRequest]_vars

---------------------------------------------------------------------------
(* Vocabulary of the properties *)

TransientSet == {429, 500, 502, 503, 504}

IsTransient(t) == t.k = "response" /\ t.status_code \in TransientSet

IsSuccess(t) == t.k = "response" /\ t.status_code < 400

IsNonRetryStatus(t) ==
    t.k = "response" /\ t.status_code >= 400 /\ t.status_code \notin TransientSet

IsFailure(t) == t.k \in {"ConnectError", "TimeoutException"}

\* The executor has returned or raised
Finished == pc \in {"executed", "done"}

\* The executor is between its first attempt and its end
Retrying == pc \in {"attempt", "sleep"}

NumCalls == Len(history)

\* The wait of the executor raised, which ended the call
WaitFailed == exec_result.act = "raise" /\ exec_result.exc = "ValueError"

AllBefore(n, P(_)) == \A i \in 1..n : P(history[i])

\* The executor returned the response of the latest transport call
ReturnedLatest ==
    /\ exec_result.act = "return"
    /\ exec_result.response = outcome
    /\ Tag(outcome) = history[NumCalls]

---------------------------------------------------------------------------
(* C1. Retry until success: when the first N-1 transport calls return a     *)
(* transient status and call N returns a status < 400 (max_retries >= N-1), *)
(* the executor, sync or async, makes exactly N transport calls and returns *)
(* the N-th response: it does not stop while every outcome so far is a      *)
(* transient status and attempts remain, and it stops at the success, after *)
(* N-1 waits (none for N = 1).                                              *)

C1_RetryUntilSuccess ==
    /\ ( /\ NumCalls >= 1
         /\ NumCalls <= config.max_retries
         /\ AllBefore(NumCalls, IsTransient) )
       => Retrying
    /\ ( /\ NumCalls >= 1
         /\ AllBefore(NumCalls - 1, IsTransient)
         /\ IsSuccess(history[NumCalls]) )
       => /\ Finished
          /\ calls = NumCalls
          /\ ReturnedLatest
          /\ sleeps = NumCalls - 1

\* C1 holds of every call whose wait does not fail
C1_UnlessWaitFails == ~WaitFailed => C1_RetryUntilSuccess

(* C2. Exhaustion: when every transport call returns a transient status and *)
(* max_retries = M, the executor makes exactly M+1 transport calls and      *)
(* returns the last response, whose status is still transient; it raises    *)
(* nothing.                                                                 *)

C2_Exhaustion ==
    ( NumCalls >= 1 /\ AllBefore(NumCalls, IsTransient) )
    => /\ NumCalls <= config.max_retries + 1
       /\ calls = NumCalls
       /\ (NumCalls = config.max_retries + 1) <=> Finished
       /\ Finished => /\ ReturnedLatest
                      /\ exec_result.response.status_code \in TransientSet

\* C2 holds of every call whose wait does not fail
C2_UnlessWaitFails == ~WaitFailed => C2_Exhaustion

(* C3. Non-retry: a response with a status >= 400 outside the transient set *)
(* ends the call at once, whatever max_retries and the attempt index: the   *)
(* executor returns that response, with no wait and no transport call       *)
(* after it.                                                                *)

C3_NonRetry ==
    \A i \in 1..NumCalls :
        IsNonRetryStatus(history[i])
        => /\ i = NumCalls
           /\ Finished
           /\ calls = i
           /\ sleeps = i - 1
           /\ ReturnedLatest

C3_Witness ==
    /\ pc = "executed"
    /\ config.max_retries = 2
    /\ attempt = 1
    /\ NumCalls = 2
    /\ history[2] = [k |-> "response", status_code |-> 404]
    /\ exec_result.response.status_code = 404

(* C4. Transport-failure exhaustion: when every attempt ends in a connect   *)
(* or timeout failure and max_retries = M, exactly M+1 transport calls are  *)
(* made, the executor re-raises the failure of the last attempt, and        *)
(* _request raises YodConnectionError (connect failure) or YodTimeoutError  *)
(* (timeout), never an API error with a status code.                        *)

C4_FailureExhaustion ==
    ( NumCalls >= 1 /\ AllBefore(NumCalls, IsFailure) )
    => /\ NumCalls <= config.max_retries + 1
       /\ calls = NumCalls
       /\ (NumCalls = config.max_retries + 1) <=> Finished
       /\ Finished => /\ exec_result.act = "raise"
                      /\ exec_result.exc = history[NumCalls].k
       /\ pc = "done"
          => /\ result.k = "raise"
             /\ ~result.error.api
             /\ result.error.kind =
                    IF history[NumCalls].k = "ConnectError"
                    THEN "YodConnectionError" ELSE "YodTimeoutError"

C4_Witness ==
    /\ pc = "done"
    /\ config.max_retries = 2
    /\ history = << Tag(Raised("TimeoutException")), Tag(Raised("ConnectError")),
                    Tag(Raised("TimeoutException")) >>
    /\ result.error.kind = "YodTimeoutError"

(* C5. Attempt bound: one call performs at least 1 and at most              *)
(* max_retries+1 transport calls, whatever the outcomes; it performs        *)
(* exactly max_retries+1 when every attempt ends in a transient status or   *)
(* a connect/timeout failure.                                               *)

IsRetryable(t) == IsTransient(t) \/ IsFailure(t)

C5_AttemptBound ==
    /\ calls <= config.max_retries + 1
    /\ Finished => calls >= 1
    /\ ( Finished /\ AllBefore(NumCalls, IsRetryable) )
       => calls = config.max_retries + 1

\* C5 holds of every call whose wait does not fail
C5_UnlessWaitFails == ~WaitFailed => C5_AttemptBound

(* C6. Only the final attempt surfaces: a transient status or a connect or  *)
(* timeout failure ends the call only on the last permitted attempt; what   *)
(* the executor and _request return or raise is determined by the outcome   *)
(* of the last attempt performed alone, whatever came before. (That no      *)
(* attempt or wait follows the end of the call is C6_NoAttemptAfterTheEnd.) *)

\* What the executor yields for a last outcome o
ExecutorOutcomeOf(o) == IF o.k = "response" THEN Return(o) ELSE Raise(o.k)

\* What _request yields for a last outcome o
FacadeOutcomeOf(o, raw) ==
    CASE o.k = "ConnectError"     -> Raises(OtherException("YodConnectionError"))
      [] o.k = "TimeoutException" -> Raises(OtherException("YodTimeoutError"))
      [] o.k = "OtherError"       -> Raises(OtherException("OtherError"))
      [] o.k = "response" /\ o.status_code >= 400 ->
            Raises(_handle_error_response(o.status_code,
                                          _parse_response_body(o.content),
                                          o.request_id, o.retry_after))
      [] o.k = "response" /\ o.status_code < 400 /\ raw ->
            Returned([k |-> "bytes", content |-> o.content, body |-> NoBody])
      [] o.k = "response" /\ o.status_code < 400 /\ ~raw ->
            Returned([k |-> "json", content |-> "",
                      body |-> _parse_response_body(o.content)])

C6_LastAttemptDecides ==
    /\ ( Finished /\ IsRetryable(history[NumCalls]) )
       => NumCalls = config.max_retries + 1
    /\ Finished => exec_result = ExecutorOutcomeOf(outcome)
    /\ pc = "done" => result = FacadeOutcomeOf(outcome, raw_response)

C6_NothingAfterTheEnd ==
    Finished => /\ calls' = calls
                /\ history' = history
                /\ sleeps' = sleeps
                /\ exec_result' = exec_result
                /\ (pc = "done" => result' = result)

\* The first two parts of C6 hold of every call whose wait does not fail
C6_UnlessWaitFails == ~WaitFailed => C6_LastAttemptDecides

\* The last part of C6 holds of every call
C6_NoAttemptAfterTheEnd == [][C6_NothingAfterTheEnd]_vars

---------------------------------------------------------------------------
(* Properties of the classifier and of the facade *)

\* The error class the status table gives for a status >= 400
KindOf(status_code) ==
    CASE status_code = 401 -> "AuthenticationError"
      [] status_code = 403 -> "AuthorizationError"
      [] status_code = 404 -> "NotFoundError"
      [] status_code = 422 -> "ValidationError"
      [] status_code = 429 -> "RateLimitError"
      [] status_code \notin {401, 403, 404, 422, 429} /\ status_code >= 500 -> "ServerError"
      [] OTHER -> "YodAPIError"

IsNonEmptyArray(body) == body.t = "list" /\ body.n > 0

(* C7. Classification table: for every status >= 400 the class of the       *)
(* raised error is the function KindOf of the status alone, whatever the    *)
(* body and the headers, and ServerError and the generic YodAPIError carry  *)
(* that status.                                                             *)

C7_ClassificationTable ==
    cl.pc = "out"
    => /\ cl.error.kind = KindOf(cl.status_code)
       /\ cl.error.kind \in {"ServerError", "YodAPIError"}
          => cl.error.status_code = cl.status_code

(* C7, on the bodies _handle_error_response declares (None or a JSON        *)
(* object) and on empty arrays: the table holds there.                      *)

C7_TableOnDeclaredBodies ==
    ( cl.pc = "out" /\ ~IsNonEmptyArray(cl.body) )
    => /\ cl.error.api
       /\ cl.error.kind = KindOf(cl.status_code)
       /\ cl.error.kind \in {"ServerError", "YodAPIError"}
          => cl.error.status_code = cl.status_code

(* C8, as stated. Facade raise/return rule: when the executor returns a     *)
(* response, _request raises the classified error if and only if the        *)
(* status is >= 400 and otherwise returns the parsed body; a 401 response   *)
(* is raised as AuthenticationError with status 401 after a single          *)
(* transport call.                                                          *)

C9_RateLimitEndToEnd ==
    ( /\ config.max_retries = 0
      /\ NumCalls >= 1
      /\ outcome.k = "response"
      /\ outcome.status_code = 429
      /\ outcome.retry_after = "60" )
    => /\ Finished
       /\ calls = 1
       /\ sleeps = 0
       /\ pc = "done"
          => /\ result.k = "raise"
             /\ result.error.kind = "RateLimitError"
             /\ result.error.status_code = 429
             /\ result.error.retry_after = Some(60000)

(* C9, for a body that is absent or a JSON object: the property holds.      *)

C9_RateLimitOnObjectBodies ==
    ( /\ config.max_retries = 0
      /\ NumCalls >= 1
      /\ outcome.k = "response"
      /\ outcome.status_code = 429
      /\ outcome.retry_after = "60"
      /\ ~IsNonEmptyArray(_parse_response_body(outcome.content)) )
    => /\ Finished
       /\ calls = 1
       /\ sleeps = 0
       /\ pc = "done"
          => /\ result.k = "raise"
             /\ result.error.kind = "RateLimitError"
             /\ result.error.status_code = 429
             /\ result.error.retry_after = Some(60000)

(* C10, as stated, on JSON objects and absent bodies. Message extraction:   *)
(* the message of the raised error is the body's "detail" if it has one,    *)
(* else its "message" if it has one, else the string form of the body, else *)
(* (no body) "Unknown error"; also for an empty object and a null detail.   *)

MessageAsStated(body) ==
    CASE body.t = "none"        -> "Unknown error"
      [] body.detail # Absent  -> body.detail
      [] body.detail = Absent /\ body.message # Absent -> body.message
      [] OTHER                  -> StrOf(body)

IsEmptyBody(body) ==
    \/ body.t = "none"
    \/ body.t = "dict" /\ body.detail = Absent /\ body.message = Absent /\ body.n = 0
    \/ body.t = "list" /\ body.n = 0

MessageAmended(body) ==
    CASE IsEmptyBody(body)  -> "Unknown error"
      [] ~IsEmptyBody(body) /\ body.detail # Absent -> body.detail
      [] ~IsEmptyBody(body) /\ body.detail = Absent /\ body.message # Absent -> body.message
      [] OTHER -> StrOf(body)

C11_MalformedBodies ==
    ( /\ cl.pc = "out"
      /\ cl.content = "" \/ JsonLoads(cl.content) = JSONDecodeError )
    => /\ cl.body = NoBody
       /\ cl.error.api
       /\ cl.error.kind = KindOf(cl.status_code)
       /\ cl.error.response_body = NoBody
       /\ cl.error.message = "Unknown error"

C11_Witness ==
    /\ cl.pc = "out"
    /\ cl.content = "not json"
    /\ cl.status_code = 500
    /\ cl.body = NoBody
    /\ cl.error.kind = "ServerError"
    /\ cl.error.message = "Unknown error"

(* C12. Classification is total over body shapes: for every status >= 400   *)
(* and every body the parser produces (absent, a JSON object, a JSON array) *)
(* classification raises a library API error, of the kind the status table  *)
(* gives, and no other exception.                                           *)

C12_TotalOverBodies ==
    cl.pc = "out"
    => /\ cl.error.api
       /\ cl.error.kind \in { "YodAPIError", "AuthenticationError", "AuthorizationError",
                               "NotFoundError", "ValidationError", "RateLimitError",
                               "ServerError" }
       /\ cl.error.kind = KindOf(cl.status_code)

---------------------------------------------------------------------------
(* Properties of the retry policy and of the delay *)

(* C13. should_retry(status, config) is true if and only if status is a     *)
(* member of config.retry_on_status; with the default configuration it is   *)
(* true for exactly 429, 500, 502, 503, 504 and false for every other code. *)

C13_ShouldRetry ==
    ( fn.pc = "out" /\ fn.f = "should_retry" )
    => /\ fn.out_b <=> fn.status_code \in fn.cfg.retry_on_status
       /\ fn.cfg = RetryConfig(0)
          => ( fn.out_b <=> fn.status_code \in {429, 500, 502, 503, 504} )

C13_Witness ==
    /\ fn.pc = "out"
    /\ fn.f = "should_retry"
    /\ fn.cfg = RetryConfig(0)
    /\ fn.status_code = 504
    /\ fn.out_b

\* min(initial_delay * backoff_multiplier^k, max_delay)
Backoff(k, cfg) ==
    Min(cfg.initial_delay * Pow(cfg.backoff_multiplier, k), cfg.max_delay)

(* C14. Backoff formula: with jitter = 0 and no retry_after,                *)
(* calculate_delay(k, config) is min(initial_delay * backoff_multiplier^k,  *)
(* max_delay) for every zero-based attempt index k.                         *)

C14_BackoffFormula ==
    ( /\ fn.pc = "out" /\ fn.f = "calculate_delay"
      /\ fn.cfg.jitter = 0
      /\ ~fn.retry_after.some )
    => fn.out_d = Backoff(fn.attempt, fn.cfg)

C14_Witness ==
    /\ fn.pc = "out" /\ fn.f = "calculate_delay"
    /\ fn.cfg.jitter = 0
    /\ fn.retry_after = None
    /\ fn.cfg.initial_delay = 10000
    /\ fn.cfg.backoff_multiplier = 2
    /\ fn.cfg.max_delay = 15000
    /\ fn.attempt = 2
    /\ fn.out_d = 15000

(* C15. Retry-After cap: when retry_after is given, calculate_delay returns *)
(* min(retry_after, max_delay), whatever the attempt index and the jitter   *)
(* setting: no jitter is applied.                                           *)

C15_RetryAfterCap ==
    ( /\ fn.pc = "out" /\ fn.f = "calculate_delay"
      /\ fn.retry_after.some )
    => fn.out_d = Min(fn.retry_after.val, fn.cfg.max_delay)

C15_Witness ==
    /\ fn.pc = "out" /\ fn.f = "calculate_delay"
    /\ fn.retry_after = Some(100000)
    /\ fn.cfg.max_delay = 5000
    /\ fn.cfg.jitter = 50
    /\ fn.attempt = 3
    /\ fn.out_d = 5000

(* C16. Jitter bounds: without retry_after, for                             *)
(* d = min(initial_delay * backoff_multiplier^k, max_delay) and a jitter j  *)
(* in [0, 1], every value calculate_delay returns lies in                   *)
(* [max(0, d*(1-j)), d*(1+j)].                                              *)

C16_JitterBounds ==
    ( /\ fn.pc = "out" /\ fn.f = "calculate_delay"
      /\ ~fn.retry_after.some )
    => LET d == Backoff(fn.attempt, fn.cfg)
           j == fn.cfg.jitter
       IN  /\ 100 * fn.out_d >= Max(0, d * (100 - j))
           /\ 100 * fn.out_d <= d * (100 + j)

C16_Witness ==
    /\ fn.pc = "out" /\ fn.f = "calculate_delay"
    /\ fn.retry_after = None
    /\ fn.cfg.initial_delay = 1000
    /\ fn.cfg.jitter = 50
    /\ fn.attempt = 0
    /\ fn.out_d = 500

(* C17. Retry-After drives the wait: when a retried response, of any        *)
(* transient status, carries a Retry-After header that is a number of       *)
(* seconds, the duration of the wait before the next attempt is             *)
(* min(that number, max_delay); when the header is missing or is not a      *)
(* number (an HTTP-date), and after a connect or timeout failure, it is the *)
(* backoff delay of the current attempt index, within its jitter.           *)

\* The executor has just asked for a wait after the latest outcome
WaitRequested == pc = "sleep" \/ WaitFailed

C17_RetryAfterDrivesWait ==
    WaitRequested
    => IF /\ outcome.k = "response"
          /\ outcome.retry_after # Absent
          /\ ParseFloat(outcome.retry_after).some
       THEN delay = Min(ParseFloat(outcome.retry_after).val, config.max_delay)
       ELSE /\ 100 * delay >= Backoff(attempt, config) * (100 - config.jitter)
            /\ 100 * delay <= Backoff(attempt, config) * (100 + config.jitter)

C17_Witness ==
    /\ pc = "sleep"
    /\ variant = "sync"
    /\ attempt = 1
    /\ outcome.k = "response"
    /\ outcome.status_code = 503
    /\ outcome.retry_after = "60"
    /\ delay = 30000

---------------------------------------------------------------------------
(* Properties of the two executors together *)

(* C18. Sync/async equivalence: for the same RetryConfig (jitter 0) and the *)
(* same sequence of transport outcomes, with any Retry-After header value,  *)
(* execute_with_retry_sync and execute_with_retry_async make the same       *)
(* number of transport calls, ask for the same sequence of wait durations   *)
(* and end with the same returned response or the same raised exception.    *)

C18_SyncAsyncEquivalence ==
    ( eq.pc = "run" /\ eq.sync.pc = "done" /\ eq.async.pc = "done" )
    => /\ eq.sync.calls = eq.async.calls
       /\ eq.sync.waits = eq.async.waits
       /\ eq.sync.result = eq.async.result

\* C18 holds whenever the wait of the sync executor does not fail
C18_UnlessWaitFails ==
    ( /\ eq.pc = "run" /\ eq.sync.pc = "done" /\ eq.async.pc = "done"
      /\ eq.sync.result # Raise("ValueError") )
    => /\ eq.sync.calls = eq.async.calls
       /\ eq.sync.waits = eq.async.waits
       /\ eq.sync.result = eq.async.result

(* C31. Backoff index is the attempt index: the wait after the attempt with *)
(* zero-based index k is min(initial_delay * backoff_multiplier^k,          *)
(* max_delay) whenever that attempt gave no numeric Retry-After, whether    *)
(* the earlier attempts ended in a transient status or in a connect or      *)
(* timeout failure; and in a call without Retry-After headers (jitter 0,    *)
(* backoff_multiplier >= 1) the successive waits are non-decreasing and     *)
(* each is at most max_delay.                                               *)

\* The attempt with outcome o gave a numeric Retry-After
NumericRetryAfter(o) ==
    o.k = "response" /\ o.retry_after # Absent /\ ParseFloat(o.retry_after).some

C31_BackoffIndex ==
    eq.pc = "run"
    => \A v \in {"sync", "async"} :
          LET e == IF v = "sync" THEN eq.sync ELSE eq.async
              n == Len(e.waits)
          IN  /\ n <= e.calls
              /\ \A i \in 1..n :
                    ~NumericRetryAfter(eq.outs[i])
                    => e.waits[i] = Backoff(i - 1, eq.cfg)
              /\ ( \A i \in 1..n : eq.outs[i].retry_after = Absent )
                 => /\ \A i \in 1..n : e.waits[i] <= eq.cfg.max_delay
                    /\ \A i, j \in 1..n : i <= j => e.waits[i] <= e.waits[j]

C31_Witness ==
    /\ eq.pc = "run"
    /\ eq.cfg.max_delay = 750 /\ eq.cfg.backoff_multiplier = 2
    /\ Len(eq.outs) = 2
    /\ eq.outs[1].k = "ConnectError"
    /\ eq.outs[2].k = "response" /\ eq.outs[2].status_code = 503
    /\ eq.outs[2].retry_after = Absent
    /\ eq.sync.waits = << 500, 750 >>
    /\ eq.async.waits = << 500, 750 >>

---------------------------------------------------------------------------
(* Properties of concurrent calls *)

(* C19. Strictly sequential attempts: within one call at most one transport *)
(* exchange is in flight at any time, and attempt n+1 starts only after     *)
(* attempt n has completed and the wait that follows it has finished; also  *)
(* when several calls run concurrently on the same client.                  *)

C19_StrictlySequential ==
    tasks.pc = "run"
    => \A u \in Tasks :
          LET c == tasks.t[u]
          IN  /\ c.inflight \in {0, 1}
              /\ c.started = c.completed + c.inflight
              /\ c.started <= c.waited + 1
              /\ c.pc = "sleep" => c.inflight = 0
              /\ c.inflight = 1 => /\ c.waited = c.completed
                                   /\ c.started = c.attempt + 1

C19_Witness ==
    /\ tasks.pc = "run"
    /\ tasks.mode = "sync"
    /\ tasks.t[1].inflight = 1
    /\ tasks.t[1].started = 2
    /\ tasks.t[1].waited = 1
    /\ tasks.t[2].inflight = 1

(* C20. Cooperative wait: in the async client the wait between attempts     *)
(* suspends only the task that is retrying: while one task is waiting, any  *)
(* other task on the same client can take its next step, whichever it is    *)
(* (start, begin or complete a transport exchange, end its own wait), and   *)
(* no step of another task changes the attempt count or the result of the   *)
(* waiting task.                                                            *)

C20_OthersProceed ==
    ( tasks.pc = "run" /\ tasks.mode = "async" )
    => \A t \in Tasks : \A u \in Tasks \ {t} :
          tasks.t[t].pc = "sleep"
          => /\ tasks.t[u].pc = "idle" => ENABLED TaskGetClient(u)
             /\ tasks.t[u].pc = "attempt" => ENABLED TaskSend(u)
             /\ tasks.t[u].pc = "inflight"
                => ENABLED (\E o \in TaskOutcomes : TaskReceive(u, o))
             /\ tasks.t[u].pc = "sleep" => ENABLED TaskWake(u)

C20_WaiterUnaffected ==
    ( tasks.pc = "run" /\ tasks.mode = "async" )
    => \A t \in Tasks : \A u \in Tasks \ {t} :
          tasks'.t[u] # tasks.t[u] => tasks'.t[t] = tasks.t[t]

C20_CooperativeWait == []C20_OthersProceed /\ [][C20_WaiterUnaffected]_vars

C20_Witness ==
    /\ tasks.pc = "run"
    /\ tasks.mode = "async"
    /\ tasks.t[1].pc = "sleep"
    /\ tasks.t[1].waited = 0
    /\ tasks.t[2].pc = "done"
    /\ tasks.t[2].started = 1
    /\ tasks.overlap
    /\ tasks.t[2].result.act = "return"

(* C21. Lazy-init race: in the blocking client the lazy construction of    *)
(* the connection object is not atomic: every thread that makes its first   *)
(* request while self._client is None constructs a connection object, so    *)
(* two threads can construct two for one client; the client then            *)
(* references the one assigned last, and only that one.                     *)

\* The calls that have seen self._client is None and constructed an object
Constructors == { u \in Tasks : tasks.t[u].pc # "idle" /\ tasks.t[u].pc # "construct" }

C21_LazyInitRace ==
    ( tasks.pc = "run" /\ tasks.mode = "sync" )
    => /\ tasks.made <= Cardinality(Constructors)
       /\ Len(tasks.assigned) <= tasks.made
       /\ tasks.client = IF tasks.assigned = << >> THEN 0
                         ELSE tasks.assigned[Len(tasks.assigned)]

\* Two threads have each constructed a connection object; the client
\* references the second to be assigned, which was the first to be constructed
C21_Witness ==
    /\ tasks.pc = "run"
    /\ tasks.mode = "sync"
    /\ tasks.made = 2
    /\ tasks.assigned = << 2, 1 >>
    /\ tasks.client = 1
    /\ tasks.t[1].pc = "attempt" /\ tasks.t[1].conn = 1
    /\ tasks.t[2].pc = "attempt" /\ tasks.t[2].conn = 1

(* C35. One connection object per call: every attempt of a call goes       *)
(* through the connection object the call obtained at its start, and that   *)
(* object stays the call's whatever happens to self._client meanwhile: a    *)
(* close(), or a close() and a new lazy construction by another call, while *)
(* the call waits between two attempts.                                     *)

\* Call u has obtained its connection object
Obtained(u) == tasks.t[u].pc \in {"attempt", "inflight", "sleep", "done"}

C35_SameObjectInEveryAttempt ==
    tasks.pc = "run"
    => \A u \in Tasks :
          /\ tasks.t[u].used \subseteq {tasks.t[u].conn}
          /\ tasks.t[u].started >= 1 => ( Obtained(u) /\ tasks.t[u].used = {tasks.t[u].conn} )
          /\ ~Obtained(u) => tasks.t[u].used = {}

C35_ObjectKept ==
    \A u \in Tasks : Obtained(u) => tasks'.t[u].conn = tasks.t[u].conn

C35_OneConnectionPerCall == []C35_SameObjectInEveryAttempt /\ [][C35_ObjectKept]_vars

\* Call 1 made its first attempt through object 1; while it waited, object 1
\* was closed and call 2 constructed object 2; the second attempt of call 1
\* went to object 1 again, which refused it
C35_Witness ==
    /\ tasks.pc = "run"
    /\ tasks.t[1].pc = "done"
    /\ tasks.t[1].started = 1
    /\ tasks.t[1].waited = 1
    /\ tasks.t[1].conn = 1
    /\ tasks.t[1].used = {1}
    /\ tasks.t[1].result = Raise("RuntimeError")
    /\ tasks.closed = {1}
    /\ tasks.client = 2
    /\ tasks.t[2].conn = 2

(* C36. No lazy-init race under cooperative scheduling: when tasks of one   *)
(* event loop make their first requests concurrently on one async client,   *)
(* exactly one connection object is constructed, by the first of them to    *)
(* run _get_client, and every task uses it, as long as close() has not been *)
(* called.                                                                  *)

C36_NoRaceInAsync ==
    ( tasks.pc = "run" /\ tasks.mode = "async" /\ tasks.closed = {} )
    => /\ tasks.made <= 1
       /\ tasks.made = 1 <=> \E u \in Tasks : tasks.t[u].pc # "idle"
       /\ tasks.client = tasks.made
       /\ \A u \in Tasks :
             /\ tasks.t[u].pc \in {"idle", "attempt", "inflight", "sleep", "done"}
             /\ tasks.t[u].pc # "idle" => tasks.t[u].conn = 1
             /\ tasks.t[u].used \subseteq {1}

C36_Witness ==
    /\ tasks.pc = "run"
    /\ tasks.mode = "async"
    /\ tasks.closed = {}
    /\ tasks.made = 1
    /\ \A u \in Tasks : tasks.t[u].pc = "inflight" /\ tasks.t[u].used = {1}

---------------------------------------------------------------------------
(* Properties of the connection object of one client *)

(* C22. Lazy construction and teardown: constructing a client and entering  *)
(* its context-manager block construct no connection object; a connection   *)
(* object is constructed only by a request, the first one; after close()    *)
(* and after the block is left, at its end or by an exception, the client   *)
(* references no connection object, whether or not a request was made.      *)

C22_LazyConstructionAndTeardown ==
    life.pc = "run"
    => /\ life.requests = 0 => ( life.made = 0 /\ life.client = 0 )
       /\ life.made <= life.requests
       /\ ( life.requests >= 1 /\ life.closed = {} /\ life.last = "request" )
          => ( life.made = 1 /\ life.client = 1 )
       /\ life.last \in {"close", "exit"}
          => ( life.client = 0 /\ life.closed = 1..life.made )

C22_Witness ==
    /\ life.pc = "run"
    /\ life.block = "left"
    /\ life.last = "exit"
    /\ life.requests = 1
    /\ life.made = 1
    /\ life.closed = {1}
    /\ life.client = 0

(* C37. Connection lifecycle in sequential use: after any sequence of       *)
(* requests and close() calls made one at a time the client references at   *)
(* most one connection object, which is open, and every other object it     *)
(* ever constructed is closed; close() on a client without a connection     *)
(* object changes nothing; and a request made when the client references    *)
(* none constructs a fresh object, never one that was closed, while a       *)
(* request made when it references one reuses that one.                     *)

C37_OneOpenObject ==
    life.pc = "run"
    => /\ life.client \in 0..life.made
       /\ life.closed = (1..life.made) \ {life.client}

C37_CloseIsIdempotent ==
    ( life'.last \in {"close", "exit"} /\ life.client = 0 )
    => ( life'.client = 0 /\ life'.made = life.made /\ life'.closed = life.closed )

C37_FreshAfterClose ==
    life'.requests = life.requests + 1
    => IF life.client = 0
       THEN /\ life'.made = life.made + 1
            /\ life'.client = life'.made
            /\ life'.client \notin life.closed
       ELSE /\ life'.made = life.made
            /\ life'.client = life.client

C37_SequentialLifecycle ==
    /\ []C37_OneOpenObject
    /\ [][C37_CloseIsIdempotent]_vars
    /\ [][C37_FreshAfterClose]_vars

C37_Witness ==
    /\ life.pc = "run"
    /\ life.block = "out"
    /\ life.last = "request"
    /\ life.requests = 2
    /\ life.made = 2
    /\ life.closed = {1}
    /\ life.client = 2

---------------------------------------------------------------------------
(* Headers and parameters of a request *)

\* An optional setting is configured when it is given and not empty
Configured(s) == s # PyNone /\ s # ""

\* The Authorization value the priority rule selects
SelectedAuthorization(c) ==
    IF Configured(c.api_key) THEN "Bearer " \o c.api_key
    ELSE IF Configured(c.bearer_token) THEN "Bearer " \o c.bearer_token
    ELSE Absent

SelectedUserId(c) == IF Configured(c.user_id) THEN c.user_id ELSE Absent

\* C23, as stated: the built headers carry Authorization: Bearer <api_key>
\* when an API key is configured, else Bearer <bearer_token> when a bearer
\* token is configured, else no Authorization; X-User-Id: <user_id> is there
\* if and only if a user id is configured.
C23_AsStated ==
    req.pc # "idle" =>
        /\ req.built["Authorization"] = SelectedAuthorization(req.cfg)
        /\ req.built["X-User-Id"] = SelectedUserId(req.cfg)

\* C23: the priority rule decides the Authorization and X-User-Id headers
\* whenever custom_headers has no entry of that name; an entry of that name
\* in custom_headers replaces what the rule selected.
C23_AuthPriority ==
    req.pc # "idle" =>
        \A n \in {"Authorization", "X-User-Id"} :
            LET selected == IF n = "Authorization" THEN SelectedAuthorization(req.cfg)
                                                   ELSE SelectedUserId(req.cfg)
            IN  req.built[n] = IF req.cfg.custom_headers[n] # Absent
                               THEN req.cfg.custom_headers[n] ELSE selected

C23_Witness ==
    /\ req.pc # "idle"
    /\ Configured(req.cfg.api_key) /\ Configured(req.cfg.bearer_token)
    /\ Configured(req.cfg.user_id)
    /\ req.cfg.custom_headers = NoHeaders
    /\ req.built["Authorization"] = "Bearer sk-yod-key"
    /\ req.built["X-User-Id"] = "user-123"

StandardHeaders ==
    [ NoHeaders EXCEPT !["Content-Type"] = "application/json",
                       !["Accept"] = "application/json",
                       !["User-Agent"] = "yod-python-sdk/" \o __version__ ]

\* C24: the built headers contain Content-Type: application/json, Accept:
\* application/json and User-Agent: yod-python-sdk/<version>, and every name
\* present in custom_headers has the custom value, a standard or an
\* authentication header included.
C24_StandardAndCustom ==
    req.pc # "idle" =>
        /\ \A n \in {"Content-Type", "Accept", "User-Agent"} :
              req.cfg.custom_headers[n] = Absent => req.built[n] = StandardHeaders[n]
        /\ \A n \in HeaderNames :
              req.cfg.custom_headers[n] # Absent => req.built[n] = req.cfg.custom_headers[n]

C24_Witness ==
    /\ req.pc # "idle"
    /\ Configured(req.cfg.api_key)
    /\ req.cfg.custom_headers["Authorization"] = "Basic abc"
    /\ req.built["Authorization"] = "Basic abc"
    /\ req.built["User-Agent"] = "yod-python-sdk/" \o __version__

\* custom_headers names no Content-Type, in either spelling
DefaultContentType(c) ==
    c.custom_headers["Content-Type"] = Absent /\ c.custom_headers["content-type"] = Absent

\* C25, as stated: on every attempt the request that reaches the transport
\* carries no Content-Type: application/json when its payload is multipart
\* files, and carries it when it has a JSON body or only a query string.
C25_MultipartSuppression ==
    (req.attempts >= 1 /\ DefaultContentType(req.cfg)) =>
        IF req.payload = "files"
        THEN "application/json" \notin req.sent.headers["content-type"]
        ELSE "application/json" \in req.sent.headers["content-type"]

\* What the code does achieve: the headers argument of a file upload has no
\* Content-Type key, and JSON-body and query-only requests carry the default.
C25_ArgumentWithoutContentType ==
    req.attempts >= 1 =>
        /\ req.payload = "files" => req.sent.arg["Content-Type"] = Absent
        /\ (req.payload # "files" /\ DefaultContentType(req.cfg)) =>
              req.sent.headers["content-type"] = {"application/json"}

\* What reaches the transport on every attempt of a file upload: the default
\* of the connection object, and no multipart boundary.
C25_DefaultSurvives ==
    (req.attempts >= 1 /\ req.payload = "files" /\ DefaultContentType(req.cfg)) =>
        req.sent.headers["content-type"] = {"application/json"}

\* C26: on every attempt the parameters sent are those of the call whose
\* value is not None (False, 0 and the empty string are sent), and they are
\* the same from one attempt to the next.
C26_AbsentParamsOmitted ==
    /\ [](req.attempts >= 1 =>
            \A k \in ParamKeys :
                req.sent.params[k] = IF req.params.d[k] \in {Absent, PyNone}
                                     THEN Absent ELSE req.params.d[k])
    /\ [][(req.attempts >= 1 /\ req'.attempts >= 1) =>
            (req'.sent.params = req.sent.params /\ req'.params = req.params)]_vars

C26_Witness ==
    /\ req.attempts = 2
    /\ req.params.d["a"] = PyNone /\ req.sent.params["a"] = Absent
    /\ req.params.d["b"] = PyFalse /\ req.sent.params["b"] = PyFalse

---------------------------------------------------------------------------
(* Properties of the raw-response flag and of the shape of the loop *)

\* The facade of the variant of the call
Facade(er, raw) ==
    IF variant = "sync" THEN YodClient_request(er, raw) ELSE AsyncYodClient_request(er, raw)

\* The executor goes on exactly while the latest outcome is retryable,
\* attempts remain and its wait did not fail
LoopEnded ==
    /\ NumCalls >= 1
    /\ \/ NumCalls = config.max_retries + 1
       \/ ~IsRetryable(history[NumCalls])
       \/ WaitFailed

(* C27. Raw-response flag: a call with raw_response whose final response    *)
(* has a status < 400 returns the content of that response as it is, bytes, *)
(* also when the content is not JSON; one whose final response has a status *)
(* >= 400 raises what the call without the flag raises for that response;   *)
(* and with or without the flag the executor makes one transport call per   *)
(* attempt and ends exactly when the loop ends.                             *)

C27_RawResponse ==
    /\ ( pc = "done" /\ raw_response /\ exec_result.act = "return" )
       => IF exec_result.response.status_code < 400
          THEN result = Returned([k |-> "bytes",
                                  content |-> exec_result.response.content,
                                  body |-> NoBody])
          ELSE result = Facade(exec_result, FALSE)
    /\ calls = NumCalls
    /\ Finished <=> LoopEnded

C27_Witness ==
    /\ pc = "done"
    /\ raw_response
    /\ calls = 2
    /\ history[1] = [k |-> "response", status_code |-> 503]
    /\ exec_result.response.status_code = 200
    /\ exec_result.response.content = "[1]"
    /\ result = Returned([k |-> "bytes", content |-> "[1]", body |-> NoBody])

C27_WitnessError ==
    /\ pc = "done"
    /\ raw_response
    /\ calls = 2
    /\ exec_result.act = "return"
    /\ exec_result.response.status_code = 404
    /\ result.k = "raise"
    /\ result.error.kind = "NotFoundError"

(* C28. Unreachable guard: the executor never ends in the code after the    *)
(* loop. It ends only in an iteration of the loop, a wait is requested only *)
(* when an attempt remains, and RuntimeError is never raised, for every     *)
(* max_retries >= 0.                                                        *)

C28_UnreachableGuard ==
    /\ [](pc = "sleep" => attempt < config.max_retries)
    /\ [](~(exec_result.act = "raise" /\ exec_result.exc = "RuntimeError"))
    /\ [][pc' = "executed" => pc = "attempt"]_vars

C28_Witness ==
    /\ pc = "executed"
    /\ config.max_retries = 2
    /\ attempt = 2
    /\ calls = 3
    /\ IsTransient(history[3])
    /\ exec_result.act = "return"

(* C29. Non-negative waits: every duration the executor passes to its wait  *)
(* is >= 0, and the wait does not fail.                                     *)

C29_NonNegativeWaits ==
    /\ WaitRequested => delay >= 0
    /\ ~WaitFailed

\* The wait is negative only for a negative Retry-After value, and it fails
\* only in the sync executor
C29_NegativeOnlyFromRetryAfter ==
    /\ ( WaitRequested /\ delay < 0 )
       => /\ outcome.k = "response"
          /\ outcome.retry_after # Absent
          /\ ParseFloat(outcome.retry_after).some
          /\ ParseFloat(outcome.retry_after).val < 0
    /\ WaitFailed <=> ( variant = "sync" /\ Finished /\ sleeps > 0 /\ delay < 0 )

(* C30. One wait between consecutive attempts: when the call has ended the  *)
(* number of waits is the number of transport calls minus one; at the start *)
(* of an attempt and during a wait there have been as many waits as         *)
(* transport calls, so that no wait precedes the first attempt, exactly one *)
(* lies between two consecutive attempts and none follows the last.         *)

C30_OneWaitBetweenAttempts ==
    /\ Finished => sleeps = calls - 1
    /\ pc = "attempt" => ( sleeps = calls /\ calls = attempt )
    /\ pc = "sleep" => ( sleeps = calls /\ calls = attempt + 1 )
    /\ pc = "idle" => ( sleeps = 0 /\ calls = 0 )

\* C30 holds of every call whose wait does not fail
C30_UnlessWaitFails == ~WaitFailed => C30_OneWaitBetweenAttempts

---------------------------------------------------------------------------
(* Termination and the failures that are not retried *)

(* C32. Termination: when every transport exchange and every wait ends,     *)
(* every call ends, returning or raising, and it makes at most              *)
(* max_retries + 1 transport calls on the way, whatever the outcomes.       *)

C32_Termination ==
    /\ <>(pc = "done" /\ result.k \in {"return", "raise"})
    /\ [](calls <= config.max_retries + 1)

C32_Witness ==
    /\ pc = "done"
    /\ config.max_retries = 2
    /\ calls = 3
    /\ AllBefore(3, IsRetryable)
    /\ result.k = "raise"

(* C33. Other failures are not retried: when request_func() raises an       *)
(* exception that is neither a connect failure nor a timeout, that attempt  *)
(* is the last of the call, no wait and no attempt follows it, and the      *)
(* executor and _request raise that same exception, whatever the attempt    *)
(* index and max_retries.                                                   *)

C33_OtherFailuresNotRetried ==
    \A i \in 1..NumCalls :
        ( history[i].k \notin {"response", "ConnectError", "TimeoutException"} )
        => /\ i = NumCalls
           /\ Finished
           /\ calls = i
           /\ sleeps = i - 1
           /\ attempt = i - 1
           /\ exec_result = Raise(history[i].k)
           /\ pc = "done" => result = Raises(OtherException(history[i].k))

C33_Witness ==
    /\ pc = "done"
    /\ config.max_retries = 2
    /\ calls = 2
    /\ history[1] = [k |-> "response", status_code |-> 503]
    /\ history[2].k = "OtherError"
    /\ sleeps = 1
    /\ result.error.kind = "OtherError"

(* C34. Error metadata comes from the final response: the status code and   *)
(* the request id of a raised API error are those of the response of the    *)
(* last attempt; retry_after is carried by RateLimitError only and is the   *)
(* numeric value of that response's Retry-After header, not capped by       *)
(* max_delay (none when the header is missing or not numeric); every other  *)
(* API error, a ServerError for a 5xx response with a Retry-After header    *)
(* included, carries none.                                                  *)

C34_WitnessServerError ==
    /\ pc = "done"
    /\ calls = 3
    /\ outcome.status_code = 503
    /\ outcome.retry_after = "60"
    /\ result.error.kind = "ServerError"
    /\ result.error.retry_after = None

=============================================================================
